---- MODULE Spec2Model ----
(***************************************************************************)
(* Vastr hybrid retrieval engine (backend/hybrid_search.py) and the search *)
(* router in front of it (backend/routers/search.py).                      *)
(*                                                                         *)
(* Scores are exact rationals <<numerator, denominator>>; weights are      *)
(* multiples of one half, so the default weight 0.5 is DefaultWeight = 1   *)
(* and the weight 1.0 is WeightOne = 2.                                    *)
(***************************************************************************)
EXTENDS Integers, Sequences, FiniteSets, TLC

VARIABLES
    \* VastrHybridSearch fields
    products_list,      \* self.products_list: the catalog snapshot
    bm25_index,         \* self.bm25_index: query -> BM25Okapi.get_scores(query)
    tfidf_matrix,       \* self.tfidf_matrix: query -> cosine_similarity(query, matrix)
    argsort_ties,       \* how np.argsort orders equal scores in this build
    set_order,          \* the iteration order of a Python set of indices in this build
    \* the most recent request and what it returned
    request,            \* entry point and the arguments the caller supplied
    call,               \* the arguments hybrid_search itself received
    bm25_normalized,    \* the local dict bm25_normalized of that hybrid_search call
    cosine_normalized,  \* its local dict cosine_normalized
    hybrid_scores,      \* its local dict hybrid_scores
    response,           \* what the entry point returned
    snapshot,           \* an earlier hybrid_search call and its result, kept for comparison
    pending,            \* how many requests the clients have still to send
    search_engine,      \* routers/search.py: the global search_engine
    \* text normalizer under test
    text,               \* the argument of _preprocess_text
    normalized,         \* _preprocess_text(text)
    renormalized,       \* _preprocess_text(_preprocess_text(text))
    \* image search: the module globals and what they are loaded from
    image_module,       \* which image search module the process imports
    npz_files,          \* what the configured vector-store files hold on disk
    model_available,    \* whether from_pretrained can load the ViT model
    imported,           \* the module-level code of the image search module has run
    _VIT_MODEL,         \* the global _VIT_MODEL
    _EMBEDDINGS,        \* the global _EMBEDDINGS
    _PRODUCT_IDS,       \* the global _PRODUCT_IDS
    \* insight aggregation under test
    result_list,        \* the list search_with_insights aggregates
    insights,           \* the insights it computes from it
    \* the MongoDB database vastr_fashion_db
    db_products,        \* db['products']: the catalog
    db_removed_products, \* db['removed_products']
    db_price_history,   \* db['price_history'], oldest entry first
    \* outside the API process: the network and the offline scripts
    http_gets,          \* the URLs requests.get was called with, in order
    merged_file,        \* merge_embeddings.py: what OUTPUT_FILE holds
    live_site,          \* the brand's shop: the products each live collection lists
    sync_run,           \* what the last sync_brand run fetched and counted
    checkpoint_file,    \* build_embeddings.py: what CHECKPOINT_FILE holds
    partial_file,       \* what OUTPUT_FILE.partial holds
    output_file,        \* what OUTPUT_FILE holds
    build_log           \* the runs of build_embeddings so far, oldest first

vars == <<products_list, bm25_index, tfidf_matrix, argsort_ties, set_order,
          request, call, bm25_normalized, cosine_normalized, hybrid_scores,
          response, snapshot, pending, search_engine,
          text, normalized, renormalized,
          image_module, npz_files, model_available, imported,
          _VIT_MODEL, _EMBEDDINGS, _PRODUCT_IDS,
          result_list, insights,
          db_products, db_removed_products, db_price_history,
          http_gets, merged_file, live_site, sync_run,
          checkpoint_file, partial_file, output_file, build_log>>

searchVars == <<products_list, bm25_index, tfidf_matrix, argsort_ties, set_order,
                request, call, bm25_normalized, cosine_normalized, hybrid_scores,
                response, snapshot, pending, search_engine>>

normVars == <<text, normalized, renormalized>>

imageVars == <<image_module, npz_files, model_available, imported,
               _VIT_MODEL, _EMBEDDINGS, _PRODUCT_IDS>>

aggVars == <<result_list, insights>>

dbVars == <<db_products, db_removed_products, db_price_history>>

mergeVars == <<merged_file>>

syncVars == <<live_site, sync_run>>

buildVars == <<checkpoint_file, partial_file, output_file, build_log>>

envVars == <<http_gets, mergeVars, syncVars, buildVars>>

\* what a call into the text engine leaves alone
otherVars == <<normVars, imageVars, aggVars, dbVars, envVars>>

\* Python's None, and the marker of a value not computed yet (one-element
\* sequences, so that they compare with strings, which are sequences).
None == <<"None">>
Unset == <<"Unset">>

EmptyMap == [x \in {} |-> 0]

Min(a, b) == IF a <= b THEN a ELSE b

RECURSIVE Concat(_)
Concat(seqs) == IF seqs = <<>> THEN <<>> ELSE Head(seqs) \o Concat(Tail(seqs))

(***************************************************************************)
(* Text normalizer: VastrHybridSearch._preprocess_text                     *)
(*                                                                         *)
(* A string is a sequence of code points. The code points below stand for  *)
(* the classes the function tells apart: lowercase letter, uppercase       *)
(* letter, digit, apostrophe, space, other whitespace (tab, and the        *)
(* non-ASCII no-break space), ASCII punctuation, a non-ASCII letter, and   *)
(* U+0130 whose lowercase is two code points ("i" and U+0307).             *)
(***************************************************************************)
MaxLen == 4

Chars == {"a", "A", "7", "'", " ", "TAB", "NBSP", "-", "E_ACUTE", "I_DOT"}

Strings == UNION {[1..n -> Chars] : n \in 0..MaxLen}

\* str.lower() on one code point
LowerChar(c) ==
    CASE c = "A" -> <<"a">>
      [] c = "I_DOT" -> <<"i", "COMBINING_DOT">>
      [] OTHER -> <<c>>

\* str.lower()
Lower(s) == Concat([i \in 1..Len(s) |-> LowerChar(s[i])])

\* \s in a str pattern, and the separators of str.split(): Unicode whitespace
IsSpace(c) == c \in {" ", "TAB", "NBSP"}

\* the class [a-z0-9\s\'] of the pattern
Kept(c) == c \in {"a", "i", "7", "'"} \/ IsSpace(c)

\* re.sub(r'[^a-z0-9\s\']', ' ', text)
SubSpecial(s) == [i \in 1..Len(s) |-> IF Kept(s[i]) THEN s[i] ELSE " "]

\* text.split(): the maximal runs of non-whitespace, in order
RECURSIVE SplitFrom(_, _, _)
SplitFrom(s, i, word) ==
    IF i > Len(s) THEN (IF word = <<>> THEN <<>> ELSE <<word>>)
    ELSE IF IsSpace(s[i])
         THEN (IF word = <<>> THEN <<>> ELSE <<word>>) \o SplitFrom(s, i + 1, <<>>)
         ELSE SplitFrom(s, i + 1, Append(word, s[i]))

Split(s) == SplitFrom(s, 1, <<>>)

\* ' '.join(words)
RECURSIVE Join(_)
Join(words) ==
    IF words = <<>> THEN <<>>
    ELSE IF Len(words) = 1 THEN Head(words)
    ELSE Head(words) \o <<" ">> \o Join(Tail(words))

\* the mutant: whitespace split on the space character only, text.split(' ')
RECURSIVE SplitOnSpaceFrom(_, _, _)
SplitOnSpaceFrom(s, i, word) ==
    IF i > Len(s) THEN <<word>>
    ELSE IF s[i] = " "
         THEN <<word>> \o SplitOnSpaceFrom(s, i + 1, <<>>)
         ELSE SplitOnSpaceFrom(s, i + 1, Append(word, s[i]))

CollapseOnSpaceOnly(s) == Join(SplitOnSpaceFrom(s, 1, <<>>))

\* the mutant: one pass of re.sub(r'\s\s', ' ', text) followed by strip()
RECURSIVE ReplacePairs(_)
ReplacePairs(s) ==
    IF Len(s) < 2 THEN s
    ELSE IF IsSpace(s[1]) /\ IsSpace(s[2])
         THEN <<" ">> \o ReplacePairs(SubSeq(s, 3, Len(s)))
         ELSE <<s[1]>> \o ReplacePairs(Tail(s))

RECURSIVE Strip(_)
Strip(s) ==
    IF s = <<>> THEN s
    ELSE IF IsSpace(s[1]) THEN Strip(Tail(s))
    ELSE IF IsSpace(s[Len(s)]) THEN Strip(SubSeq(s, 1, Len(s) - 1))
    ELSE s

CollapseOnePass(s) == Strip(ReplacePairs(s))

\* ' '.join(text.split())
CollapseWhitespace(s) == Join(Split(s))

_preprocess_text(t) ==
    IF t = None \/ t = <<>> THEN <<>>
    ELSE CollapseWhitespace(SubSpecial(Lower(t)))

InitNormIdle ==
    /\ text = None
    /\ normalized = Unset
    /\ renormalized = Unset

InitNorm ==
    /\ text \in Strings \cup {None}
    /\ normalized = Unset
    /\ renormalized = Unset

\* None as the value of a module global that otherwise holds an array or a list
NoArray == [none |-> TRUE]

\* the ndarray or list with the given rows
Array(rows) == [rows |-> rows]

\* None as the value of _VIT_MODEL
NoModel == "None"

\* the image search module is not imported
InitImageIdle ==
    /\ image_module = "none"
    /\ npz_files = <<>>
    /\ model_available = FALSE
    /\ imported = FALSE
    /\ _VIT_MODEL = NoModel
    /\ _EMBEDDINGS = NoArray
    /\ _PRODUCT_IDS = NoArray

\* no result list is being aggregated
InitAggIdle ==
    /\ result_list = <<>>
    /\ insights = Unset

\* the database holds what the engine loaded; no sync has run
InitDbIdle ==
    /\ db_products = products_list
    /\ db_removed_products = <<>>
    /\ db_price_history = <<>>

\* nothing has gone over the network, no offline script has run
InitEnvIdle ==
    /\ http_gets = <<>>
    /\ merged_file = [state |-> "missing", rows |-> <<>>]
    /\ live_site = <<>>
    /\ sync_run = <<>>
    /\ checkpoint_file = [state |-> "missing"]
    /\ partial_file = [state |-> "missing", rows |-> <<>>]
    /\ output_file = [state |-> "missing", rows |-> <<>>]
    /\ build_log = <<>>

InitIdle ==
    /\ InitNormIdle
    /\ InitImageIdle
    /\ InitAggIdle
    /\ InitDbIdle
    /\ InitEnvIdle

\* normalized = self._preprocess_text(text)
Normalize ==
    /\ normalized = Unset
    /\ normalized' = _preprocess_text(text)
    /\ UNCHANGED <<text, renormalized>>

\* self._preprocess_text applied to its own output
NormalizeAgain ==
    /\ normalized # Unset
    /\ renormalized = Unset
    /\ renormalized' = _preprocess_text(normalized)
    /\ UNCHANGED <<text, normalized>>

(***************************************************************************)
(* Exact arithmetic on scores                                              *)
(***************************************************************************)
\* the default of bm25_weight and cosine_weight, 0.5, in halves
DefaultWeight == 1

\* the weight 1.0, in halves
WeightOne == DefaultWeight + DefaultWeight

Zero == <<0, 1>>

\* weight * score, for a weight given in halves
FracScale(w, f) == <<w * f[1], WeightOne * f[2]>>

FracAdd(f, g) == <<f[1] * g[2] + g[1] * f[2], f[2] * g[2]>>

FracLess(f, g) == f[1] * g[2] < g[1] * f[2]

FracEq(f, g) == f[1] * g[2] = g[1] * f[2]

\* dict.get(key, default)
Get(d, key, default) == IF key \in DOMAIN d THEN d[key] ELSE default

\* the items of a dict kept as a sequence of <<key, value>> in insertion order
Keys(items) == {items[k][1] : k \in 1..Len(items)}

\* where the key is in the sequence
PositionOf(items, key) == CHOOSE k \in 1..Len(items) : items[k][1] = key

(***************************************************************************)
(* The catalog snapshot and the two indices                                *)
(***************************************************************************)
MaxN == 2          \* products in a small snapshot
MaxScoreSum == 3   \* the raw scores of a query over a small snapshot add up to this at most
MaxTopK == 2       \* largest top_k a caller asks of a small snapshot

Queries == {"q1", "q2"}

\* the product stored at position i of the snapshot
Product(i) ==
    [_id |-> i,
     product_id |-> i,
     brand_id |-> IF i % 2 = 1 THEN "nishat" ELSE "ethnic",
     brand_name |-> IF i % 2 = 1 THEN "Nishat Linen" ELSE "Ethnic",
     product_type |-> IF i % 3 = 0 THEN "dress" ELSE "suit",
     price_min |-> i,
     available |-> (i % 3 # 2)]

Catalog(n) == [i \in 1..n |-> Product(i)]

N == Len(products_list)

\* the orders of 1..n: position i holds the rank of index i
Orders(n) == {f \in [1..n -> 1..n] : \A i, j \in 1..n : i # j => f[i] # f[j]}

(***************************************************************************)
(* VastrHybridSearch._bm25_search and _cosine_search                       *)
(***************************************************************************)
\* the top_k both searches are called with by hybrid_search
InternalTopK == 100

\* np.argsort(scores)[::-1][:top_k]: the indices by decreasing score, equal
\* scores in the order this build's argsort leaves them
ArgsortRank(scores) ==
    LET n == Len(scores)
        ahead(j, i) == \/ scores[j] > scores[i]
                       \/ scores[j] = scores[i] /\ argsort_ties[j] < argsort_ties[i]
    IN  [i \in 1..n |-> 1 + Cardinality({j \in 1..n : ahead(j, i)})]

\* the sequence that holds at each place p the element of the given rank p
ByRank(rank, length) == [p \in 1..length |-> CHOOSE i \in DOMAIN rank : rank[i] = p]

TopIndices(scores, top_k) == ByRank(ArgsortRank(scores), Min(top_k, Len(scores)))

\* (idx, scores[idx]) for idx in top_indices
Pairs(scores, top_indices) ==
    [p \in 1..Len(top_indices) |-> <<top_indices[p], scores[top_indices[p]]>>]

\* the mutant: no "if score > 0"
AllTopResults(scores, top_k) == Pairs(scores, TopIndices(scores, top_k))

\* [(idx, scores[idx]) for idx in top_indices if scores[idx] > 0]
PositiveTopResults(scores, top_k) ==
    LET positive(pair) == pair[2] > 0
    IN  SelectSeq(Pairs(scores, TopIndices(scores, top_k)), positive)

_bm25_search(query, top_k) == PositiveTopResults(bm25_index[query], top_k)

_cosine_search(query, top_k) == PositiveTopResults(tfidf_matrix[query], top_k)

(***************************************************************************)
(* VastrHybridSearch.hybrid_search                                         *)
(***************************************************************************)
\* max(score for _, score in results)
MaxScoreOf(results) ==
    LET scores == {results[k][2] : k \in 1..Len(results)}
    IN  CHOOSE best \in scores : \A score \in scores : score <= best

RECURSIVE SumScoreOf(_)
SumScoreOf(results) ==
    IF Len(results) = 0 THEN 0 ELSE results[1][2] + SumScoreOf(Tail(results))

\* {idx: score / divisor for idx, score in results}, {} when the divisor is 0
DivideBy(results, divisor) ==
    IF divisor = 0 THEN EmptyMap
    ELSE [idx \in Keys(results) |-> <<results[PositionOf(results, idx)][2], divisor>>]

\* the mutant: scores divided by their sum instead of their maximum
NormalizeBySum(results) ==
    IF Len(results) = 0 THEN EmptyMap ELSE DivideBy(results, SumScoreOf(results))

\* the local function normalize_scores: idx -> score / max_score
normalize_scores(results) ==
    IF Len(results) = 0 THEN EmptyMap ELSE DivideBy(results, MaxScoreOf(results))

\* iterating a set of indices
SetIter(S) ==
    ByRank([i \in S |-> 1 + Cardinality({j \in S : set_order[j] < set_order[i]})],
           Cardinality(S))

\* the mutant: the dict of the previous call is reused
StaleHybridScores == hybrid_scores

\* hybrid_scores = {}
FreshHybridScores == <<>>

\* the loop "for idx in all_indices" filling hybrid_scores: a key the dict
\* holds already keeps its place and takes the new score, the other indices
\* are inserted after them in the order of the iteration
CombineScores(items, indices, bm25_norm, cosine_norm, bm25_weight, cosine_weight) ==
    LET hybrid_score(idx) ==
            FracAdd(FracScale(bm25_weight, Get(bm25_norm, idx, Zero)),
                    FracScale(cosine_weight, Get(cosine_norm, idx, Zero)))
        visited == {indices[p] : p \in 1..Len(indices)}
        inserted(idx) == idx \notin Keys(items)
        added == SelectSeq(indices, inserted)
    IN  [k \in 1..Len(items) |->
            IF items[k][1] \in visited
            THEN <<items[k][1], hybrid_score(items[k][1])>>
            ELSE items[k]]
        \o [p \in 1..Len(added) |-> <<added[p], hybrid_score(added[p])>>]

\* the items in the order of the places
Permuted(items, places) == [p \in 1..Len(items) |-> items[places[p]]]

\* the mutant: an ascending sort that is then reversed, which reverses ties too
SortedReversingTies(items) ==
    LET n == Len(items)
        ahead(a, b) == \/ FracLess(items[b][2], items[a][2])
                       \/ FracEq(items[a][2], items[b][2]) /\ a > b
    IN  Permuted(items,
                 ByRank([a \in 1..n |-> 1 + Cardinality({b \in 1..n : ahead(b, a)})], n))

\* sorted(items, key=lambda x: x[1], reverse=True): by decreasing score, stable
SortedByScore(items) ==
    LET n == Len(items)
        ahead(a, b) == \/ FracLess(items[b][2], items[a][2])
                       \/ FracEq(items[a][2], items[b][2]) /\ a < b
    IN  Permuted(items,
                 ByRank([a \in 1..n |-> 1 + Cardinality({b \in 1..n : ahead(b, a)})], n))

\* VastrHybridSearch._apply_filters
_apply_filters(product, filters) ==
    /\ "brand_id" \in DOMAIN filters =>
           "brand_id" \in DOMAIN product /\ product["brand_id"] = filters["brand_id"]
    /\ "min_price" \in DOMAIN filters =>
           ~(Get(product, "price_min", 0) < filters["min_price"])
    /\ "max_price" \in DOMAIN filters =>
           "price_min" \in DOMAIN product /\ ~(product["price_min"] > filters["max_price"])
    /\ "product_type" \in DOMAIN filters =>
           "product_type" \in DOMAIN product
               /\ product["product_type"] = filters["product_type"]
    /\ ("available_only" \in DOMAIN filters /\ filters["available_only"]) =>
           Get(product, "available", FALSE)

\* the product appended to results: the copy with its three scores, without _id
Scored(product, search_score, bm25_score, cosine_score) ==
    [key \in (DOMAIN product \ {"_id"}) \cup {"search_score", "bm25_score", "cosine_score"} |->
        CASE key = "search_score" -> search_score
          [] key = "bm25_score" -> bm25_score
          [] key = "cosine_score" -> cosine_score
          [] OTHER -> product[key]]

\* the mutant: filters applied to the whole ranking, top_k taken afterwards
FilterThenTruncate(sorted_results, top_k, filters) ==
    LET accepted(item) == DOMAIN filters = {} \/ _apply_filters(products_list[item[1]], filters)
        passing == SelectSeq(sorted_results, accepted)
    IN  SubSeq(passing, 1, Min(top_k, Len(passing)))

\* for idx, score in sorted_results[:top_k]: ... if filters and not passing: continue
TruncateThenFilter(sorted_results, top_k, filters) ==
    LET accepted(item) == DOMAIN filters = {} \/ _apply_filters(products_list[item[1]], filters)
    IN  SelectSeq(SubSeq(sorted_results, 1, Min(top_k, Len(sorted_results))), accepted)

\* the loop that builds results out of the ranking
Results(kept, bm25_norm, cosine_norm) ==
    [k \in 1..Len(kept) |->
        Scored(products_list[kept[k][1]], kept[k][2],
               Get(bm25_norm, kept[k][1], Zero),
               Get(cosine_norm, kept[k][1], Zero))]

\* the mutant: product = self.products_list[idx], the copy forgotten, so
\* that the scores are written to the stored record and its _id is popped
WrittenInPlace(products, kept, bm25_norm, cosine_norm) ==
    [i \in 1..Len(products) |->
        IF \E k \in 1..Len(kept) : kept[k][1] = i
        THEN LET k == CHOOSE k \in 1..Len(kept) : kept[k][1] = i
             IN  Scored(products[i], kept[k][2], Get(bm25_norm, i, Zero),
                        Get(cosine_norm, i, Zero))
        ELSE products[i]]

\* self.products_list after the loop: product is a copy of the stored record,
\* the three scores are written to the copy and _id is popped from the copy
WrittenToCopies(products, kept, bm25_norm, cosine_norm) == products

\* hybrid_search from the hybrid_scores dict on
Ranked(scores, bm25_norm, cosine_norm, top_k, filters) ==
    [bm25_normalized |-> bm25_norm,
     cosine_normalized |-> cosine_norm,
     hybrid_scores |-> scores,
     results |-> Results(TruncateThenFilter(SortedByScore(scores), top_k, filters),
                         bm25_norm, cosine_norm),
     products_list |-> WrittenToCopies(products_list,
                                       TruncateThenFilter(SortedByScore(scores), top_k, filters),
                                       bm25_norm, cosine_norm)]

\* the mutant: only the indices both searches found
CommonIndices(bm25_norm, cosine_norm) == DOMAIN bm25_norm \cap DOMAIN cosine_norm

\* all_indices = set(bm25_normalized.keys()) | set(cosine_normalized.keys())
AllIndices(bm25_norm, cosine_norm) == DOMAIN bm25_norm \cup DOMAIN cosine_norm

\* hybrid_search from the two normalized dicts on
Fused(bm25_norm, cosine_norm, top_k, bm25_weight, cosine_weight, filters) ==
    Ranked(CombineScores(FreshHybridScores, SetIter(AllIndices(bm25_norm, cosine_norm)),
                         bm25_norm, cosine_norm, bm25_weight, cosine_weight),
           bm25_norm, cosine_norm, top_k, filters)

\* the whole of hybrid_search: the dict it fills and the list it returns
hybrid_search(query, top_k, bm25_weight, cosine_weight, filters) ==
    Fused(normalize_scores(_bm25_search(query, InternalTopK)),
          normalize_scores(_cosine_search(query, InternalTopK)),
          top_k, bm25_weight, cosine_weight, filters)

(***************************************************************************)
(* VastrHybridSearch.search_with_insights                                  *)
(***************************************************************************)
NoPriceRange == <<>>

MinOf(S) == CHOOSE x \in S : \A y \in S : x <= y

MaxOf(S) == CHOOSE x \in S : \A y \in S : y <= x

\* how many products of the list have the value under the key (default when absent)
CountOf(results, key, default, value) ==
    Cardinality({k \in 1..Len(results) : Get(results[k], key, default) = value})

\* the mutant: "if price > 0" forgotten, a missing or zero price counts too
InsightsOverEveryPrice(results) ==
    LET brands == {Get(results[k], "brand_name", "Unknown") : k \in 1..Len(results)}
        ptypes == {Get(results[k], "product_type", "Unknown") : k \in 1..Len(results)}
        prices == {Get(results[k], "price_min", 0) : k \in 1..Len(results)}
    IN  [brands |-> [b \in brands |-> CountOf(results, "brand_name", "Unknown", b)],
         price_range |-> IF prices = {} THEN NoPriceRange
                         ELSE <<MinOf(prices), MaxOf(prices \cup {0})>>,
         product_types |-> [t \in ptypes |-> CountOf(results, "product_type", "Unknown", t)]]

\* the loop over results that fills brands_found, price_range and product_types
Insights(results) ==
    LET brands == {Get(results[k], "brand_name", "Unknown") : k \in 1..Len(results)}
        ptypes == {Get(results[k], "product_type", "Unknown") : k \in 1..Len(results)}
        prices == {Get(results[k], "price_min", 0) : k \in 1..Len(results)} \ {0}
        priced == {price \in prices : price > 0}
    IN  [brands |-> [b \in brands |-> CountOf(results, "brand_name", "Unknown", b)],
         price_range |-> IF priced = {} THEN NoPriceRange
                         ELSE <<MinOf(priced), MaxOf(priced \cup {0})>>,
         product_types |-> [t \in ptypes |-> CountOf(results, "product_type", "Unknown", t)]]

\* what search_with_insights returns once hybrid_search has returned results
WithInsights(query, results) ==
    [query |-> query,
     total_results |-> Len(results),
     products |-> results,
     insights |-> Insights(results)]

search_with_insights(query, top_k) ==
    WithInsights(query,
                 hybrid_search(query, top_k, DefaultWeight, DefaultWeight, EmptyMap).results)

(***************************************************************************)
(* Requests                                                                *)
(***************************************************************************)
NoRequest == [entry |-> "none"]

\* an observed call counts another, different call that follows it
Track(new_call) ==
    IF snapshot = <<>> THEN snapshot
    ELSE <<snapshot[1], snapshot[2], snapshot[3] \/ new_call # snapshot[1]>>

engineVars == <<products_list, bm25_index, tfidf_matrix, argsort_ties, set_order>>

\* what the engine holds besides the product snapshot
indexVars == <<bm25_index, tfidf_matrix, argsort_ties, set_order>>

\* one more request arrives
Arrives ==
    /\ pending > 0
    /\ pending' = pending - 1

\* the mutant: the text engine refuses to build while the image store is missing
RaisesWithoutImageStore == N = 0 \/ _EMBEDDINGS = NoArray

\* VastrHybridSearch() raises: over an empty corpus BM25Okapi divides by the
\* corpus size in _build_search_indices
ConstructorRaises == N = 0

\* fastapi.HTTPException(status_code, detail)
HTTPException(status_code, detail) == [status_code |-> status_code, detail |-> detail]

\* get_search_engine() raised inside the handler's try: the except clause
\* answers with the exception text, and the global stays None
Fails(entry, detail) ==
    /\ search_engine = None
    /\ ConstructorRaises
    /\ request' = [entry |-> entry]
    /\ response' = HTTPException(500, detail)
    /\ UNCHANGED <<engineVars, call, bm25_normalized, cosine_normalized, hybrid_scores,
                   snapshot, search_engine, otherVars>>

\* get_search_engine() returned the engine, built now or by an earlier request
Engine ==
    /\ search_engine # None \/ ~ConstructorRaises
    /\ search_engine' = <<"VastrHybridSearch">>

\* the locals the hybrid_search call leaves behind, and the snapshot after
\* its loop over the ranking
Locals(found) ==
    /\ products_list' = found.products_list
    /\ bm25_normalized' = found.bm25_normalized
    /\ cosine_normalized' = found.cosine_normalized
    /\ hybrid_scores' = found.hybrid_scores

\* a direct call of VastrHybridSearch.hybrid_search
HybridSearchCall(Qs, Ks, Ws, Fs) ==
    \E query \in Qs, top_k \in Ks, bm25_weight \in Ws, cosine_weight \in Ws, filters \in Fs :
        LET args == [query |-> query, top_k |-> top_k, bm25_weight |-> bm25_weight,
                     cosine_weight |-> cosine_weight, filters |-> filters]
        IN  /\ Arrives
            /\ ~ConstructorRaises
            /\ \E found \in {hybrid_search(query, top_k, bm25_weight, cosine_weight, filters)} :
                  /\ request' = [entry |-> "hybrid_search", bm25_weight |-> bm25_weight,
                                 cosine_weight |-> cosine_weight]
                  /\ call' = args
                  /\ Locals(found)
                  /\ response' = found.results
                  /\ snapshot' = Track(args)
                  /\ UNCHANGED <<indexVars, search_engine, otherVars>>

\* a direct call of VastrHybridSearch.search_with_insights
SearchWithInsightsCall(Qs, Ks) ==
    \E query \in Qs, top_k \in Ks :
        LET args == [query |-> query, top_k |-> top_k, bm25_weight |-> DefaultWeight,
                     cosine_weight |-> DefaultWeight, filters |-> EmptyMap]
        IN  /\ Arrives
            /\ ~ConstructorRaises
            /\ \E found \in {hybrid_search(query, top_k, DefaultWeight, DefaultWeight,
                                            EmptyMap)} :
                  /\ request' = [entry |-> "search_with_insights", bm25_weight |-> DefaultWeight,
                                 cosine_weight |-> DefaultWeight]
                  /\ call' = args
                  /\ Locals(found)
                  /\ response' = WithInsights(query, found.results)
                  /\ snapshot' = Track(args)
                  /\ UNCHANGED <<indexVars, search_engine, otherVars>>

\* "if brand:", "if min_price:" ...: the query parameter is given and not falsy
Given(params, name, falsy) == name \in DOMAIN params /\ params[name] # falsy

\* the filters dict search_products builds from its query parameters
GetFilters(params) ==
    LET keys == {key \in {"brand_id", "min_price", "max_price", "available_only"} :
                    CASE key = "brand_id" -> Given(params, "brand", "")
                      [] key = "min_price" -> Given(params, "min_price", 0)
                      [] key = "max_price" -> Given(params, "max_price", 0)
                      [] key = "available_only" -> Given(params, "available_only", FALSE)}
    IN  [key \in keys |->
            CASE key = "brand_id" -> params["brand"]
              [] key = "min_price" -> params["min_price"]
              [] key = "max_price" -> params["max_price"]
              [] key = "available_only" -> TRUE]

\* GET /api/v1/search/: routers/search.py search_products
SearchProducts(Qs, Ls, Ws, Ps) ==
    \E q \in Qs, limit \in Ls, bm25_weight \in Ws, cosine_weight \in Ws, params \in Ps :
        LET filters == GetFilters(params)
            args == [query |-> q, top_k |-> limit, bm25_weight |-> DefaultWeight,
                     cosine_weight |-> DefaultWeight, filters |-> EmptyMap]
            accepted(product) == _apply_filters(product, filters)
        IN  /\ Arrives
            /\ Engine
            /\ \E found \in {hybrid_search(q, limit, DefaultWeight, DefaultWeight, EmptyMap)} :
               \E results \in {WithInsights(q, found.results)} :
               \E products \in {IF DOMAIN filters # {}
                                 THEN SelectSeq(results.products, accepted)
                                 ELSE results.products} :
                  /\ request' = [entry |-> "GET /api/v1/search", bm25_weight |-> bm25_weight,
                                 cosine_weight |-> cosine_weight]
                  /\ call' = args
                  /\ Locals(found)
                  /\ response' = [query |-> q,
                                  total_results |-> Len(products),
                                  results_shown |-> Len(products),
                                  products |-> products,
                                  insights |-> results.insights,
                                  filters_applied |-> filters]
                  /\ snapshot' = Track(args)
                  /\ UNCHANGED <<indexVars, otherVars>>

\* GET /api/v1/search/ when the engine cannot be built
SearchProductsFails ==
    /\ Arrives
    /\ Fails("GET /api/v1/search", "Search error: division by zero")

\* {k: v for k, v in filters.dict().items() if v is not None}: available_only
\* defaults to False, the other fields to None
FiltersDict(filters) ==
    [key \in DOMAIN filters \cup {"available_only"} |->
        IF key \in DOMAIN filters THEN filters[key] ELSE FALSE]

\* POST /api/v1/search/advanced: routers/search.py advanced_search
AdvancedSearch(Qs, Ls, Ws, Fs) ==
    \E query \in Qs, limit \in Ls, bm25_weight \in Ws, cosine_weight \in Ws, filters \in Fs :
        LET filters_dict == FiltersDict(filters)
            args == [query |-> query, top_k |-> limit, bm25_weight |-> bm25_weight,
                     cosine_weight |-> cosine_weight, filters |-> filters_dict]
        IN  /\ Arrives
            /\ Engine
            /\ \E found \in {hybrid_search(query, limit, bm25_weight, cosine_weight,
                                            filters_dict)} :
                  /\ request' = [entry |-> "POST /api/v1/search/advanced",
                                 bm25_weight |-> bm25_weight, cosine_weight |-> cosine_weight]
                  /\ call' = args
                  /\ Locals(found)
                  /\ response' = [query |-> query,
                                  total_results |-> Len(found.results),
                                  filters_applied |-> filters_dict,
                                  products |-> found.results]
                  /\ snapshot' = Track(args)
                  /\ UNCHANGED <<indexVars, otherVars>>

\* POST /api/v1/search/advanced when the engine cannot be built
AdvancedSearchFails ==
    /\ Arrives
    /\ Fails("POST /api/v1/search/advanced", "Advanced search error: division by zero")

\* a caller keeps its hybrid_search call and the result, to compare with the
\* result of the same call made again later
Observe ==
    /\ snapshot = <<>>
    /\ request.entry = "hybrid_search"
    /\ snapshot' = <<call, response, FALSE>>
    /\ UNCHANGED <<engineVars, request, call, bm25_normalized, cosine_normalized,
                   hybrid_scores, response, pending, search_engine, otherVars>>

(***************************************************************************)
(* Specifications                                                          *)
(***************************************************************************)
Weights == 0..WeightOne

FilterChoices ==
    {EmptyMap, "brand_id" :> "ethnic", "max_price" :> 1, "min_price" :> 2,
     "available_only" :> TRUE}

ParamChoices ==
    {EmptyMap, "brand" :> "ethnic", "max_price" :> 1, "min_price" :> 0,
     "available_only" :> TRUE}

Identity(n) == [i \in 1..n |-> i]

NoMatch(n) == [i \in 1..n |-> 0]

InitRequests(requests) ==
    /\ pending = requests
    /\ request = NoRequest
    /\ call = NoRequest
    /\ bm25_normalized = EmptyMap
    /\ cosine_normalized = EmptyMap
    /\ hybrid_scores = <<>>
    /\ response = <<>>
    /\ snapshot = <<>>
    /\ search_engine = None

RECURSIVE Total(_)
Total(scores) ==
    IF scores = <<>> THEN 0
    ELSE (IF Head(scores) < 0 THEN -Head(scores) ELSE Head(scores)) + Total(Tail(scores))

\* the raw scores the two indices can give a query over n products: BM25 scores
\* of any sign (a negative average idf makes them negative), cosines >= 0
ScoreVectors(n) ==
    {bc \in [1..n -> (-1)..MaxScoreSum] \X [1..n -> 0..MaxScoreSum] :
        Total(bc[1]) + Total(bc[2]) <= MaxScoreSum}

\* a built engine over a small snapshot: q1 scores anything, q2 matches nothing
InitEngine ==
    \E n \in 1..MaxN :
        /\ products_list = Catalog(n)
        /\ \E bc \in ScoreVectors(n) :
               /\ bm25_index = [q \in Queries |-> IF q = "q1" THEN bc[1] ELSE NoMatch(n)]
               /\ tfidf_matrix = [q \in Queries |-> IF q = "q1" THEN bc[2] ELSE NoMatch(n)]
        /\ argsort_ties = Identity(n)
        /\ set_order \in Orders(n)

Init ==
    /\ InitEngine
    /\ InitRequests(1)
    /\ InitIdle

\* the engine called directly
Next ==
    \/ HybridSearchCall({"q1"}, 0..MaxTopK, Weights, FilterChoices)
    \/ SearchWithInsightsCall({"q1"}, 0..MaxTopK)

Spec == Init /\ [][Next]_vars

\* the products collection is empty: nothing to index
InitEmptyEngine ==
    /\ products_list = <<>>
    /\ bm25_index = [q \in Queries |-> <<>>]
    /\ tfidf_matrix = [q \in Queries |-> <<>>]
    /\ argsort_ties = <<>>
    /\ set_order = <<>>

InitApi ==
    /\ InitEngine \/ InitEmptyEngine
    /\ InitRequests(1)
    /\ InitIdle

\* the engine behind the search router
NextApi ==
    \/ HybridSearchCall(Queries, 0..MaxTopK, Weights, FilterChoices)
    \/ SearchWithInsightsCall(Queries, 0..MaxTopK)
    \/ SearchProducts(Queries, 1..MaxTopK, Weights, ParamChoices)
    \/ SearchProductsFails
    \/ AdvancedSearch(Queries, 1..MaxTopK, Weights, FilterChoices)
    \/ AdvancedSearchFails

SpecApi == InitApi /\ [][NextApi]_vars

(***************************************************************************)
(* Snapshots larger than the number of candidates each search hands over   *)
(***************************************************************************)
MaxExtra == 1      \* products a large snapshot has beyond InternalTopK

Reverse(n) == [i \in 1..n |-> n + 1 - i]

\* what the two indices give q1 over a large snapshot: every product matches
\* equally in both; the two rankings are opposite; or BM25 matches all but
\* the last product and the cosine all but the first
LargeScores(n) ==
    {<<[i \in 1..n |-> 1], [i \in 1..n |-> 1]>>,
     <<[i \in 1..n |-> i], [i \in 1..n |-> n + 1 - i]>>,
     <<[i \in 1..n |-> IF i < n THEN 1 ELSE 0], [i \in 1..n |-> IF i > 1 THEN 1 ELSE 0]>>}

InitLargeEngine ==
    \E n \in InternalTopK..(InternalTopK + MaxExtra) :
        /\ products_list = Catalog(n)
        /\ \E bc \in LargeScores(n) :
               /\ bm25_index = [q \in Queries |-> IF q = "q1" THEN bc[1] ELSE NoMatch(n)]
               /\ tfidf_matrix = [q \in Queries |-> IF q = "q1" THEN bc[2] ELSE NoMatch(n)]
        /\ argsort_ties \in {Identity(n), Reverse(n)}
        /\ set_order \in {Identity(n), Reverse(n)}

InitLarge ==
    /\ InitEngine \/ InitLargeEngine
    /\ InitRequests(1)
    /\ InitIdle

\* the top_k asked of the snapshot: small ones, and over a large snapshot the
\* number of candidates of one search and the number of products
TopKs == IF N > MaxN THEN {1, InternalTopK, N} ELSE 0..MaxTopK

NextLarge ==
    \/ HybridSearchCall({"q1"}, TopKs, {DefaultWeight, WeightOne},
                        {EmptyMap, "brand_id" :> "ethnic"})
    \/ SearchWithInsightsCall({"q1"}, TopKs)

SpecLarge == InitLarge /\ [][NextLarge]_vars

(***************************************************************************)
(* Repeated calls                                                          *)
(***************************************************************************)
Positive(scores) == [i \in DOMAIN scores |-> IF scores[i] > 0 THEN scores[i] ELSE 0]

Reversed(scores) == [i \in DOMAIN scores |-> scores[Len(scores) + 1 - i]]

\* as InitEngine, with a second query that matches too: q2 gets the scores of
\* q1 with the two indices and the ends of the snapshot exchanged
InitTwoQueries ==
    /\ \E n \in 1..MaxN :
          /\ products_list = Catalog(n)
          /\ \E bc \in ScoreVectors(n) :
                 /\ bm25_index = [q \in Queries |->
                                     IF q = "q1" THEN bc[1] ELSE Reversed(bc[2])]
                 /\ tfidf_matrix = [q \in Queries |->
                                       IF q = "q1" THEN bc[2] ELSE Positive(Reversed(bc[1]))]
          /\ argsort_ties = Identity(n)
          /\ set_order \in Orders(n)
    /\ InitRequests(3)
    /\ InitIdle

NextRepeated ==
    \/ HybridSearchCall(Queries, {MaxTopK}, {DefaultWeight},
                        {EmptyMap, "brand_id" :> "ethnic"})
    \/ SearchWithInsightsCall(Queries, {MaxTopK})
    \/ Observe

SpecRepeated == InitTwoQueries /\ [][NextRepeated]_vars

\* the text normalizer alone
InitNormalizer ==
    /\ products_list = Catalog(1)
    /\ bm25_index = [q \in Queries |-> NoMatch(1)]
    /\ tfidf_matrix = [q \in Queries |-> NoMatch(1)]
    /\ argsort_ties = Identity(1)
    /\ set_order = Identity(1)
    /\ InitRequests(0)
    /\ InitNorm
    /\ InitImageIdle
    /\ InitAggIdle
    /\ InitDbIdle
    /\ InitEnvIdle

NextNormalizer ==
    \/ Normalize /\ UNCHANGED <<searchVars, imageVars, aggVars, dbVars, envVars>>
    \/ NormalizeAgain /\ UNCHANGED <<searchVars, imageVars, aggVars, dbVars, envVars>>

SpecNormalizer == InitNormalizer /\ [][NextNormalizer]_vars

(***************************************************************************)
(* The insight aggregator alone: the loop of search_with_insights over a   *)
(* result list                                                             *)
(***************************************************************************)
MaxResults == 3    \* products in an aggregated result list

\* the products hybrid_search may hand over: brand name, product type and
\* price each present or missing (a price of -1 stands for a missing one), the
\* price zero or positive
Missing == "missing"

Drafts ==
    [brand_name : {"Nishat Linen", "Ethnic", Missing},
     product_type : {"suit", Missing},
     price_min : {0, 1, 2, -1}]

\* the draft without the keys marked missing
ResultProduct(draft) ==
    [key \in (IF draft.brand_name # Missing THEN {"brand_name"} ELSE {})
              \cup (IF draft.product_type # Missing THEN {"product_type"} ELSE {})
              \cup (IF draft.price_min >= 0 THEN {"price_min"} ELSE {}) |->
        draft[key]]

ResultLists ==
    UNION {[1..n -> {ResultProduct(draft) : draft \in Drafts}] : n \in 0..MaxResults}

InitInsights ==
    /\ products_list = Catalog(1)
    /\ bm25_index = [q \in Queries |-> NoMatch(1)]
    /\ tfidf_matrix = [q \in Queries |-> NoMatch(1)]
    /\ argsort_ties = Identity(1)
    /\ set_order = Identity(1)
    /\ InitRequests(1)
    /\ InitNormIdle
    /\ InitImageIdle
    /\ result_list \in ResultLists
    /\ insights = Unset
    /\ InitDbIdle
    /\ InitEnvIdle

\* the loop of search_with_insights run over the result list
Aggregate ==
    /\ Arrives
    /\ insights' = Insights(result_list)
    /\ UNCHANGED <<engineVars, request, call, bm25_normalized, cosine_normalized,
                   hybrid_scores, response, snapshot, search_engine, normVars,
                   imageVars, result_list, dbVars, envVars>>

NextInsights == Aggregate

SpecInsights == InitInsights /\ [][NextInsights]_vars

(***************************************************************************)
(* Image search: backend/image_search.py and routers/image_search.py       *)
(*                                                                         *)
(* A vector <<x, y, d>> is the point (x/d, y/d) of the plane; the vectors  *)
(* below have integer length, so that norms and cosines are exact.         *)
(***************************************************************************)
MaxRows == 2       \* rows the configured vector-store files hold together at most
MaxLimit == 2      \* largest limit an image search asks for
MaxRequests == 2   \* requests one process serves

BackendModule == "backend/image_search.py"
RoutersModule == "backend/routers/image_search.py"

\* the unit vectors the embedding scripts store
UnitVectors == {<<1, 0, 1>>, <<3, 4, 5>>, <<0, 1, 1>>}

\* the identifiers of the products the vectors were computed from
StoredIds == {1, 2}

\* np.linalg.norm of the numerator (x, y)
IntNorm(v) == CHOOSE n \in 0..(v[1] + v[2]) : n * n = v[1] * v[1] + v[2] * v[2]

\* v / np.clip(norm, 1e-10), and emb / (norm + 1e-10): the same direction, length 1
L2Normalize(v) == IF IntNorm(v) = 0 THEN <<0, 0, 1>> ELSE <<v[1], v[2], IntNorm(v)>>

\* sklearn cosine_similarity of two vectors; 0 when either is the zero vector
Cosine(a, b) ==
    IF IntNorm(a) = 0 \/ IntNorm(b) = 0 THEN Zero
    ELSE <<a[1] * b[1] + a[2] * b[2], IntNorm(a) * IntNorm(b)>>

\* cosine_similarity(emb.reshape(1, -1), _EMBEDDINGS)[0]
Sims(emb, matrix) == [i \in 1..Len(matrix) |-> Cosine(emb, matrix[i])]

\* np.argsort(sims)[::-1][:limit]: the rows by decreasing similarity, equal
\* similarities in the order this build's argsort leaves them
SimRank(sims) ==
    LET n == Len(sims)
        ahead(j, i) == \/ FracLess(sims[i], sims[j])
                       \/ FracEq(sims[j], sims[i]) /\ argsort_ties[j] < argsort_ties[i]
    IN  [i \in 1..n |-> 1 + Cardinality({j \in 1..n : ahead(j, i)})]

\* the mutant: np.argsort(sims)[:limit], the reversal forgotten
LeastSimilarFirst(sims, limit) ==
    LET n == Len(sims)
        rank == SimRank(sims)
    IN  ByRank([i \in 1..n |-> n + 1 - rank[i]], Min(limit, n))

MostSimilarFirst(sims, limit) == ByRank(SimRank(sims), Min(limit, Len(sims)))

\* a vector-store file on disk: missing, not readable by np.load, readable
\* but without the product_ids array, or holding both arrays, row k of
\* embeddings stored next to entry k of product_ids
FileStates == {"missing", "unreadable", "no_product_ids", "ok"}

File(state, rows) == [state |-> state, rows |-> rows]

Embeddings(file) == [k \in 1..Len(file.rows) |-> file.rows[k][2]]

ProductIds(file) == [k \in 1..Len(file.rows) |-> file.rows[k][1]]

\* the mutant: all_embeddings.append before data["product_ids"] is read
AppendedBeforeIds(file) ==
    IF file.state \in {"ok", "no_product_ids"} THEN Embeddings(file) ELSE <<>>

\* what one file adds to all_embeddings: nothing unless both arrays were read
AppendedEmbeddings(file) == IF file.state = "ok" THEN Embeddings(file) ELSE <<>>

\* what one file adds to all_product_ids
ExtendedProductIds(file) == IF file.state = "ok" THEN ProductIds(file) ELSE <<>>

\* load_model(): the globals it leaves
load_model == IF model_available THEN "ViTModel" ELSE NoModel

\* backend/image_search.py load_embeddings(): its return value and the globals
load_embeddings(files) ==
    LET all_embeddings == Concat([k \in 1..Len(files) |-> AppendedEmbeddings(files[k])])
        all_product_ids == Concat([k \in 1..Len(files) |-> ExtendedProductIds(files[k])])
        loaded_count == Cardinality({k \in 1..Len(files) : files[k].state = "ok"})
    IN  IF loaded_count = 0
        THEN [returned |-> FALSE, _EMBEDDINGS |-> NoArray, _PRODUCT_IDS |-> NoArray]
        ELSE [returned |-> TRUE,
              _EMBEDDINGS |-> Array([i \in 1..Len(all_embeddings) |->
                                        L2Normalize(all_embeddings[i])]),
              _PRODUCT_IDS |-> Array(all_product_ids)]

\* routers/image_search.py load_embeddings(): the first file that loads is the
\* store; a file whose product_ids cannot be read has set _EMBEDDINGS already
FirstLoadableFile(files) ==
    LET loadable == {k \in 1..Len(files) : files[k].state = "ok"}
        first == CHOOSE k \in loadable : \A j \in loadable : k <= j
        partial == {k \in 1..Len(files) : files[k].state = "no_product_ids"}
        latest == CHOOSE k \in partial : \A j \in partial : j <= k
    IN  IF loadable # {}
        THEN [returned |-> TRUE,
              _EMBEDDINGS |-> Array(Embeddings(files[first])),
              _PRODUCT_IDS |-> Array(ProductIds(files[first]))]
        ELSE [returned |-> FALSE,
              _EMBEDDINGS |-> IF partial = {} THEN NoArray
                              ELSE Array(Embeddings(files[latest])),
              _PRODUCT_IDS |-> NoArray]

\* a submitted image: bytes that do not decode, or a picture whose CLS
\* embedding is the given vector
Undecodable == [decodable |-> FALSE]

Picture(v) == [decodable |-> TRUE, cls |-> v]

Images == {Undecodable} \cup {Picture(v) : v \in UnitVectors}

\* a picture that decodes but makes the encoder raise at inference
Unencodable == [decodable |-> TRUE, encoder |-> "RuntimeError"]

\* the try block from the decoded bytes on: Image.open raises on bytes that
\* are no image, the model may raise, otherwise the normalized CLS embedding
Embedded(image) ==
    IF ~image.decodable THEN [raised |-> "UnidentifiedImageError"]
    ELSE IF "encoder" \in DOMAIN image THEN [raised |-> image.encoder]
    ELSE [value |-> L2Normalize(image.cls)]

\* the mutant: "except requests.RequestException", other errors propagate
ExceptRequestException(outcome) ==
    IF "raised" \in DOMAIN outcome
    THEN IF outcome.raised \in {"ConnectionError", "Timeout", "HTTPError"}
         THEN NoArray ELSE outcome
    ELSE Array(outcome.value)

\* "except Exception as e: ... return None" around the try block
ExceptException(outcome) ==
    IF "raised" \in DOMAIN outcome THEN NoArray ELSE Array(outcome.value)

\* get_embedding_from_base64: None without a model or when anything raises
get_embedding_from_base64(image) ==
    IF _VIT_MODEL = NoModel THEN NoArray
    ELSE ExceptException(Embedded(image))

\* what requests.get(url, timeout=10) meets: no connection, no answer in
\* time, an answer with an error status, or 200 with the bytes of an image
FetchOutcomes ==
    {[error |-> "ConnectionError"], [error |-> "Timeout"], [status_code |-> 404]}
        \cup {[status_code |-> 200, content |-> image] : image \in {Undecodable, Unencodable}}
        \cup {[status_code |-> 200, content |-> Picture(<<3, 4, 5>>)]}

\* the try block of get_embedding_from_url: requests.get, raise_for_status,
\* then as for inline bytes
Fetched(answer) ==
    IF "error" \in DOMAIN answer THEN [raised |-> answer.error]
    ELSE IF answer.status_code # 200 THEN [raised |-> "HTTPError"]
    ELSE Embedded(answer.content)

\* get_embedding_from_url: what it returns and the requests it has made
get_embedding_from_url(url, answer) ==
    IF _VIT_MODEL = NoModel THEN [returned |-> NoArray, gets |-> <<>>]
    ELSE [returned |-> ExceptException(Fetched(answer)), gets |-> <<url>>]

\* an exception no handler catches: the server answers 500
Unhandled == HTTPException(500, "Internal Server Error")

\* backend/image_search.py search_by_image
search_by_image(image, limit) ==
    IF _EMBEDDINGS = NoArray \/ _PRODUCT_IDS = NoArray
    THEN HTTPException(503, "Image search not ready - embeddings missing")
    ELSE IF Len(_EMBEDDINGS.rows) = 0
    THEN HTTPException(503, "Image search not ready - embeddings missing")
    ELSE LET emb == get_embedding_from_base64(image)
         IN  IF emb = NoArray THEN HTTPException(500, "Failed to process image")
             ELSE LET sims == Sims(emb.rows, _EMBEDDINGS.rows)
                      top_idx == MostSimilarFirst(sims, limit)
                  IN  [results |-> [p \in 1..Len(top_idx) |->
                                       [product_id |-> _PRODUCT_IDS.rows[top_idx[p]],
                                        similarity |-> sims[top_idx[p]]]]]

\* get_product_by_id: the document of the products collection with that _id
InCollection(pid) == \E i \in 1..Len(db_products) : db_products[i]._id = pid

get_product_by_id(pid) ==
    db_products[CHOOSE i \in 1..Len(db_products) : db_products[i]._id = pid]

\* extract_product_data: name, price, image and link of the document
extract_product_data(doc) ==
    [name |-> <<Get(doc, "brand_name", ""), Get(doc, "title", "Unnamed Product")>>,
     price |-> Get(doc, "price_min", 0),
     image |-> "https://via.placeholder.com/400x600/cccccc/666666?text=No+Image",
     link |-> Get(doc, "url", "#")]

\* product_data["similarity"] = ...
WithSimilarity(product_data, similarity) ==
    [name |-> product_data.name, price |-> product_data.price,
     image |-> product_data.image, link |-> product_data.link,
     similarity |-> similarity]

\* round(similarity * 100, 2), in hundredths
Percent(similarity) ==
    <<(2 * 10000 * similarity[1] + similarity[2]) \div (2 * similarity[2]), 100>>

\* routers/image_search.py search_by_image
router_search_by_image(image, limit) ==
    IF _EMBEDDINGS = NoArray \/ _PRODUCT_IDS = NoArray
    THEN HTTPException(503, "Image search not initialized - embeddings file missing")
    ELSE IF _VIT_MODEL = NoModel
    THEN HTTPException(503, "Image search not initialized - model not loaded")
    ELSE LET emb == get_embedding_from_base64(image)
         IN  IF emb = NoArray
             THEN HTTPException(500, "Failed to process image - invalid format or corrupted")
             ELSE IF Len(_EMBEDDINGS.rows) = 0 THEN Unhandled
             ELSE LET sims == Sims(emb.rows, _EMBEDDINGS.rows)
                      top_idx == MostSimilarFirst(sims, limit)
                      in_db(i) == InCollection(_PRODUCT_IDS.rows[i])
                      found == SelectSeq(top_idx, in_db)
                      results ==
                          [p \in 1..Len(found) |->
                              WithSimilarity(
                                  extract_product_data(
                                      get_product_by_id(_PRODUCT_IDS.rows[found[p]])),
                                  Percent(sims[found[p]]))]
                  IN  IF Len(results) = 0
                      THEN [results |-> <<>>,
                            message |-> "No matching products found in database",
                            total |-> 0]
                      ELSE [results |-> results, total |-> Len(results)]

\* the number of results debug_test_search asks for
DebugTopK == 10

\* routers/image_search.py debug_test_search: the store queried with its first row
debug_test_search ==
    IF _EMBEDDINGS = NoArray \/ _PRODUCT_IDS = NoArray
    THEN [error |-> "Embeddings not loaded"]
    ELSE IF Len(_EMBEDDINGS.rows) = 0 THEN Unhandled
    ELSE LET sims == Sims(_EMBEDDINGS.rows[1], _EMBEDDINGS.rows)
             top_idx == MostSimilarFirst(sims, DebugTopK)
             results == [p \in 1..Len(top_idx) |->
                            [rank |-> p,
                             similarity |-> sims[top_idx[p]],
                             embedding_id |-> _PRODUCT_IDS.rows[top_idx[p]],
                             found_in_db |-> InCollection(_PRODUCT_IDS.rows[top_idx[p]])]]
         IN  [test_embedding_index |-> 0,
              test_embedding_id |-> _PRODUCT_IDS.rows[1],
              top_10_results |-> results,
              successful_matches |->
                  Cardinality({p \in 1..Len(results) : results[p].found_in_db})]

\* the module-level code: load_model() and load_embeddings() run at import
ImportImageSearch ==
    /\ ~imported
    /\ image_module # "none"
    /\ imported' = TRUE
    /\ _VIT_MODEL' = load_model
    /\ \E loaded \in {IF image_module = BackendModule
                      THEN load_embeddings(npz_files)
                      ELSE FirstLoadableFile(npz_files)} :
          /\ _EMBEDDINGS' = loaded._EMBEDDINGS
          /\ _PRODUCT_IDS' = loaded._PRODUCT_IDS
    /\ UNCHANGED <<searchVars, normVars, aggVars, dbVars, envVars, image_module, npz_files,
                   model_available>>

\* what an image request leaves alone
ImageFrame ==
    UNCHANGED <<engineVars, call, bm25_normalized, cosine_normalized, hybrid_scores,
                snapshot, search_engine, normVars, aggVars, imageVars, dbVars,
                envVars>>

\* POST /api/v1/search/image, served by the module the process imported
SearchByImage(Is, Ls) ==
    \E image \in Is, limit \in Ls :
        /\ imported
        /\ Arrives
        /\ request' = [entry |-> "POST /api/v1/search/image", image |-> image,
                       limit |-> limit]
        /\ response' = IF image_module = BackendModule
                       THEN search_by_image(image, limit)
                       ELSE router_search_by_image(image, limit)
        /\ ImageFrame

\* GET /api/v1/search/debug/test-search
DebugTestSearch ==
    /\ imported
    /\ image_module = RoutersModule
    /\ Arrives
    /\ request' = [entry |-> "GET /api/v1/search/debug/test-search"]
    /\ response' = debug_test_search
    /\ ImageFrame

\* the files on disk: at most MaxRows rows in all
RowsOf(n) == [1..n -> StoredIds \X UnitVectors]

FilePairs ==
    {files \in [1..2 -> [state : FileStates, rows : UNION {RowsOf(n) : n \in 0..MaxRows}]] :
        /\ Len(files[1].rows) + Len(files[2].rows) <= MaxRows
        /\ \A k \in 1..2 : files[k].state \in {"missing", "unreadable"} => files[k].rows = <<>>}

\* a process about to import one of the two image search modules
InitImage ==
    /\ products_list = Catalog(1)
    /\ bm25_index = [q \in Queries |-> NoMatch(1)]
    /\ tfidf_matrix = [q \in Queries |-> NoMatch(1)]
    /\ argsort_ties \in Orders(MaxRows)
    /\ set_order = Identity(1)
    /\ InitRequests(1)
    /\ InitNormIdle
    /\ InitAggIdle
    /\ InitDbIdle
    /\ InitEnvIdle
    /\ image_module \in {BackendModule, RoutersModule}
    /\ npz_files \in FilePairs
    /\ model_available \in BOOLEAN
    /\ imported = FALSE
    /\ _VIT_MODEL = NoModel
    /\ _EMBEDDINGS = NoArray
    /\ _PRODUCT_IDS = NoArray

NextImage ==
    \/ ImportImageSearch
    \/ SearchByImage(Images, 1..MaxLimit)
    \/ DebugTestSearch

SpecImage == InitImage /\ [][NextImage]_vars

(***************************************************************************)
(* The application: main.py mounts the search router and the image search  *)
(* router in one process                                                   *)
(***************************************************************************)
\* the vector-store files of a process that also serves text search: one row
\* at most
SmallFilePairs ==
    {files \in FilePairs : Len(files[1].rows) + Len(files[2].rows) <= 1}

\* the process before main.py has imported the routers: the products
\* collection is empty or holds one product
InitApp ==
    /\ \E n \in 0..1 :
          /\ products_list = Catalog(n)
          /\ \E bc \in ScoreVectors(n) :
                 /\ bm25_index = [q \in Queries |-> IF q = "q1" THEN bc[1] ELSE NoMatch(n)]
                 /\ tfidf_matrix = [q \in Queries |-> IF q = "q1" THEN bc[2] ELSE NoMatch(n)]
          /\ set_order = Identity(n)
    /\ argsort_ties = Identity(1)
    /\ InitRequests(MaxRequests)
    /\ InitNormIdle
    /\ InitAggIdle
    /\ InitDbIdle
    /\ InitEnvIdle
    /\ image_module \in {BackendModule, RoutersModule}
    /\ npz_files \in SmallFilePairs
    /\ model_available \in BOOLEAN
    /\ imported = FALSE
    /\ _VIT_MODEL = NoModel
    /\ _EMBEDDINGS = NoArray
    /\ _PRODUCT_IDS = NoArray

\* the requests the application serves once its modules are imported
NextApp ==
    \/ ImportImageSearch
    \/ imported /\ SearchProducts({"q1"}, {1}, {DefaultWeight}, {EmptyMap, "brand" :> "ethnic"})
    \/ imported /\ SearchProductsFails
    \/ imported /\ AdvancedSearch({"q1"}, {1}, {DefaultWeight}, {EmptyMap})
    \/ imported /\ AdvancedSearchFails
    \/ SearchByImage({Undecodable, Picture(<<1, 0, 1>>)}, {1})

SpecApp == InitApp /\ [][NextApp]_vars

(***************************************************************************)
(* Embedding extraction alone: get_embedding_from_base64 and               *)
(* get_embedding_from_url called directly                                  *)
(***************************************************************************)
Urls == {"https://a/1.jpg", "https://b/2.jpg", "https://c/3.jpg"}

\* the image module after import, the model loaded or not
InitExtract ==
    /\ products_list = Catalog(1)
    /\ bm25_index = [q \in Queries |-> NoMatch(1)]
    /\ tfidf_matrix = [q \in Queries |-> NoMatch(1)]
    /\ argsort_ties = Identity(1)
    /\ set_order = Identity(1)
    /\ InitRequests(MaxRequests)
    /\ InitNormIdle
    /\ InitAggIdle
    /\ InitDbIdle
    /\ InitEnvIdle
    /\ image_module = BackendModule
    /\ npz_files = <<File("missing", <<>>), File("missing", <<>>)>>
    /\ model_available \in BOOLEAN
    /\ imported = TRUE
    /\ _VIT_MODEL = load_model
    /\ _EMBEDDINGS = NoArray
    /\ _PRODUCT_IDS = NoArray

\* what an extraction call leaves alone
ExtractFrame ==
    UNCHANGED <<engineVars, call, bm25_normalized, cosine_normalized, hybrid_scores,
                snapshot, search_engine, normVars, aggVars, imageVars, dbVars,
                mergeVars, syncVars, buildVars>>

\* a call of get_embedding_from_base64
EmbeddingFromBase64 ==
    \E image \in Images \cup {Unencodable} :
        /\ Arrives
        /\ request' = [entry |-> "get_embedding_from_base64", image |-> image]
        /\ response' = get_embedding_from_base64(image)
        /\ UNCHANGED http_gets
        /\ ExtractFrame

\* a call of get_embedding_from_url, the site answering in any way
EmbeddingFromUrl ==
    \E url \in Urls, answer \in FetchOutcomes :
        \E done \in {get_embedding_from_url(url, answer)} :
            /\ Arrives
            /\ request' = [entry |-> "get_embedding_from_url", url |-> url, answer |-> answer]
            /\ response' = done.returned
            /\ http_gets' = http_gets \o done.gets
            /\ ExtractFrame

NextExtract ==
    \/ EmbeddingFromBase64
    \/ EmbeddingFromUrl

SpecExtract == InitExtract /\ [][NextExtract]_vars

(***************************************************************************)
(* merge_embeddings.py: FILE_1 and FILE_2 merged into OUTPUT_FILE          *)
(***************************************************************************)

\* the rows one file to merge holds at most
MaxFileRows == 2

MergeScript == "merge_embeddings"

\* the elements of a list at the given indices, in list order
RECURSIVE Picked(_, _, _)
Picked(list, indices, i) ==
    IF i > Len(list) THEN <<>>
    ELSE (IF i \in indices THEN <<list[i]>> ELSE <<>>) \o Picked(list, indices, i + 1)

\* the mutant: the cleaning pass keeps the last row of every identifier
LastOccurrences(ids) == {i \in 1..Len(ids) : \A j \in (i + 1)..Len(ids) : ids[j] # ids[i]}

\* clean_indices: the index at which each identifier is first seen
FirstOccurrences(ids) == {i \in 1..Len(ids) : \A j \in 1..(i - 1) : ids[j] # ids[i]}

Range(list) == {list[k] : k \in 1..Len(list)}

\* merge_npz_files up to np.savez: nothing is saved unless both files load
merge_npz_files(file1, file2) ==
    IF file1.state # "ok" \/ file2.state # "ok" THEN [saved |-> FALSE]
    ELSE LET product_ids1 == ProductIds(file1)
             product_ids2 == ProductIds(file2)
             set1 == Range(product_ids1)
             added == {i \in 1..Len(product_ids2) : product_ids2[i] \notin set1}
             merged_product_ids == product_ids1 \o Picked(product_ids2, added, 1)
             merged_embeddings == Embeddings(file1) \o Picked(Embeddings(file2), added, 1)
             duplicates == Len(merged_product_ids) # Cardinality(Range(merged_product_ids))
             clean_indices == FirstOccurrences(merged_product_ids)
             product_ids == IF duplicates THEN Picked(merged_product_ids, clean_indices, 1)
                            ELSE merged_product_ids
             embeddings == IF duplicates THEN Picked(merged_embeddings, clean_indices, 1)
                           ELSE merged_embeddings
         IN  [saved |-> TRUE,
              file |-> File("ok", [k \in 1..Len(product_ids) |->
                                      <<product_ids[k], embeddings[k]>>])]

\* a file the build has written holds at least one row
MergeFiles ==
    {File("ok", rows) : rows \in UNION {RowsOf(n) : n \in 1..MaxFileRows}}
        \cup {File("missing", <<>>), File("unreadable", <<>>)}
        \cup {File("no_product_ids", rows) : rows \in RowsOf(1)}

InitMerge ==
    /\ products_list = Catalog(1)
    /\ bm25_index = [q \in Queries |-> NoMatch(1)]
    /\ tfidf_matrix = [q \in Queries |-> NoMatch(1)]
    /\ argsort_ties = Identity(1)
    /\ set_order = Identity(1)
    /\ InitRequests(MaxRequests)
    /\ InitNormIdle
    /\ InitAggIdle
    /\ InitDbIdle
    /\ InitEnvIdle
    /\ image_module = MergeScript
    /\ npz_files \in [1..2 -> MergeFiles]
    /\ model_available = FALSE
    /\ imported = FALSE
    /\ _VIT_MODEL = NoModel
    /\ _EMBEDDINGS = NoArray
    /\ _PRODUCT_IDS = NoArray

\* python merge_embeddings.py, confirmed with "yes", and the choice typed at
\* its prompt: choice 2 copies the merged file over FILE_1
MergeNpzFiles ==
    \E choice \in {"1", "2", "3"} :
        LET done == merge_npz_files(npz_files[1], npz_files[2]) IN
            /\ Arrives
            /\ request' = [entry |-> "merge_npz_files", choice |-> choice]
            /\ response' = None
            /\ merged_file' = IF done.saved THEN done.file ELSE merged_file
            /\ npz_files' = IF done.saved /\ choice = "2"
                            THEN [npz_files EXCEPT ![1] = done.file]
                            ELSE npz_files
            /\ UNCHANGED <<engineVars, call, bm25_normalized, cosine_normalized,
                           hybrid_scores, snapshot, search_engine, normVars, aggVars,
                           dbVars, http_gets, syncVars, buildVars,
                           image_module, model_available, imported,
                           _VIT_MODEL, _EMBEDDINGS, _PRODUCT_IDS>>

NextMerge == MergeNpzFiles

SpecMerge == InitMerge /\ [][NextMerge]_vars

(***************************************************************************)
(* scheduler.py: DataSyncManager.sync_brand against the brand's shop       *)
(*                                                                         *)
(* The shop lists each product in some of the brand's configured           *)
(* collections. A product's variants are the prices it is offered at; 0 is *)
(* a price of "0.00". A collection is served in pages of PageLimit         *)
(* products, and fetch_live_products reads at most MaxPages of them.       *)
(***************************************************************************)

\* the runs of sync_brand in one behaviour
MaxSyncs == 2

\* max_pages, and the products on one page
MaxPages == 1

PageLimit == 1

BrandId == "nishat"

\* BRANDS[brand_id]['collections']
Collections == <<"unstitched", "sale">>

\* the Shopify product ids
LiveIds == {1, 2}

\* what the shop says about a product: its variants' prices, and whether
\* float() accepts every one of them
LiveData ==
    {[variants |-> <<0>>, parses |-> TRUE], [variants |-> <<12>>, parses |-> TRUE],
     [variants |-> <<12, 10>>, parses |-> TRUE], [variants |-> <<12>>, parses |-> FALSE]}

\* the shops considered: the first product is unlisted, in the first
\* collection or in every collection, and its prices vary; the others are
\* unlisted or in the last collection, always offered at 12
Sites ==
    {site \in [data : [LiveIds -> LiveData],
               listed : [LiveIds -> SUBSET {Collections[c] : c \in 1..Len(Collections)}]] :
        \A id \in LiveIds :
            /\ site.listed[id] = {} => site.data[id] = [variants |-> <<12>>, parses |-> TRUE]
            /\ id = 1 => site.listed[id] \in {{}, {Collections[1]},
                                              {Collections[c] : c \in 1..Len(Collections)}}
            /\ id > 1 => /\ site.data[id] = [variants |-> <<12>>, parses |-> TRUE]
                         /\ site.listed[id] \in {{}, {Collections[Len(Collections)]}}}

\* the fetches considered: the requests of at most one collection fail
Failures ==
    {fails_at \in [1..Len(Collections) -> 0..MaxPages] :
        Cardinality({c \in 1..Len(Collections) : fails_at[c] # 0}) <= 1}

RECURSIVE Ascending(_)
Ascending(ids) ==
    IF ids = {} THEN <<>>
    ELSE LET least == CHOOSE id \in ids : \A other \in ids : id <= other
         IN  <<least>> \o Ascending(ids \ {least})

\* the products.json of a collection, all pages together
Listing(site, collection) ==
    LET ids == Ascending({id \in LiveIds : collection \in site.listed[id]})
    IN  [k \in 1..Len(ids) |-> [id |-> ids[k], variants |-> site.data[ids[k]].variants,
                                parses |-> site.data[ids[k]].parses]]

\* fetch_live_products from the given page on: the request for page
\* fails_at answers with a status other than 200 or raises
RECURSIVE fetch_live_products(_, _, _)
fetch_live_products(listing, fails_at, page) ==
    IF page > MaxPages \/ page = fails_at THEN <<>>
    ELSE LET products == SubSeq(listing, (page - 1) * PageLimit + 1,
                                Min(page * PageLimit, Len(listing)))
         IN  IF products = <<>> THEN <<>>
             ELSE products \o fetch_live_products(listing, fails_at, page + 1)

\* prices = [v['price'] for v in parsed['variants'] if v.get('price')]
Prices(variants) == {variants[k] : k \in 1..Len(variants)} \ {0}

\* _parse_product: product_id, brand_id and, if a variant has a price, price_min
_parse_product(product) ==
    IF ~product.parses THEN [raised |-> "ValueError"]
    ELSE IF Prices(product.variants) = {}
         THEN [product_id |-> ToString(product.id), brand_id |-> BrandId]
         ELSE [product_id |-> ToString(product.id), brand_id |-> BrandId,
               price_min |-> CHOOSE price \in Prices(product.variants) :
                                 \A other \in Prices(product.variants) : price <= other]

\* collection.find_one({'product_id': product_id, 'brand_id': brand_id})
Matches(product, product_id) == product.product_id = product_id /\ product.brand_id = BrandId

Found(collection, product_id) ==
    \E k \in 1..Len(collection) : Matches(collection[k], product_id)

FindOne(collection, product_id) ==
    IF Found(collection, product_id)
    THEN collection[CHOOSE k \in 1..Len(collection) :
                        /\ Matches(collection[k], product_id)
                        /\ \A j \in 1..(k - 1) : ~Matches(collection[j], product_id)]
    ELSE None

\* collection.delete_one of the same filter
DeleteOne(collection, product_id) ==
    LET first == CHOOSE k \in 1..Len(collection) :
                     /\ Matches(collection[k], product_id)
                     /\ \A j \in 1..(k - 1) : ~Matches(collection[j], product_id)
    IN  IF ~Found(collection, product_id) THEN collection
        ELSE SubSeq(collection, 1, first - 1) \o SubSeq(collection, first + 1, Len(collection))

\* collection.update_one(filter, {'$set': fields})
UpdateOne(collection, product_id, fields) ==
    LET first == CHOOSE k \in 1..Len(collection) :
                     /\ Matches(collection[k], product_id)
                     /\ \A j \in 1..(k - 1) : ~Matches(collection[j], product_id)
    IN  IF ~Found(collection, product_id) THEN collection
        ELSE [collection EXCEPT ![first] =
                 [key \in DOMAIN fields \cup DOMAIN @ |->
                     IF key \in DOMAIN fields THEN fields[key] ELSE @[key]]]

\* _log_price
_log_price(history, product_id, new_price, old_price) ==
    Append(history, [product_id |-> product_id, brand_id |-> BrandId,
                     price |-> new_price, old_price |-> old_price])

Counted(db, counter) == [db EXCEPT !.stats[counter] = @ + 1]

\* the mutant: a product that is gone from the shop is deleted without a copy
DeletedUncopied(db, product, now) ==
    Counted([db EXCEPT !.products = DeleteOne(@, product.product_id)], "removed_products")

\* the product moves to removed_products with its removal time
MovedToRemoved(db, product, now) ==
    Counted([db EXCEPT
                !.removed_products = Append(@, [product |-> product, removed_at |-> now]),
                !.products = DeleteOne(@, product.product_id)], "removed_products")

\* "for product_id in new_ids"
RECURSIVE ProcessNew(_, _, _)
ProcessNew(db, new_ids, live_products_map) ==
    IF new_ids = {} THEN db
    ELSE LET product_id == CHOOSE id \in new_ids : TRUE
             parsed == _parse_product(live_products_map[product_id])
             done == IF "raised" \in DOMAIN parsed THEN Counted(db, "errors")
                     ELSE LET inserted == Counted([db EXCEPT !.products = Append(@, parsed)],
                                                  "new_products")
                          IN  IF "price_min" \in DOMAIN parsed
                              THEN [inserted EXCEPT !.price_history =
                                       _log_price(@, product_id, parsed.price_min, None)]
                              ELSE inserted
         IN  ProcessNew(done, new_ids \ {product_id}, live_products_map)

\* "for product_id in removed_ids"
RECURSIVE ProcessRemoved(_, _, _)
ProcessRemoved(db, removed_ids, now) ==
    IF removed_ids = {} THEN db
    ELSE LET product_id == CHOOSE id \in removed_ids : TRUE
             product == FindOne(db.products, product_id)
             done == IF ~Found(db.products, product_id) THEN db
                     ELSE MovedToRemoved(db, product, now)
         IN  ProcessRemoved(done, removed_ids \ {product_id}, now)

\* "if old_price != new_price and new_price > 0"
PriceChanged(old_price, new_price) == old_price # new_price /\ new_price > 0

\* "for product_id in common_ids"
RECURSIVE ProcessUpdated(_, _, _)
ProcessUpdated(db, common_ids, live_products_map) ==
    IF common_ids = {} THEN db
    ELSE LET product_id == CHOOSE id \in common_ids : TRUE
             parsed == _parse_product(live_products_map[product_id])
             existing == FindOne(db.products, product_id)
             old_price == Get(existing, "price_min", 0)
             new_price == Get(parsed, "price_min", 0)
             logged == IF PriceChanged(old_price, new_price)
                       THEN Counted([db EXCEPT !.price_history =
                                        _log_price(@, product_id, new_price, old_price)],
                                    "price_changes")
                       ELSE db
             done == IF "raised" \in DOMAIN parsed THEN Counted(db, "errors")
                     ELSE Counted([logged EXCEPT !.products =
                                      UpdateOne(@, product_id, parsed)], "updated_products")
         IN  ProcessUpdated(done, common_ids \ {product_id}, live_products_map)

NoStats == [new_products |-> 0, updated_products |-> 0, price_changes |-> 0,
            removed_products |-> 0, errors |-> 0]

\* sync_brand(brand_id) at time now, the shop being as site says and the
\* fetch of each collection failing at the given page (0: at none)
sync_brand(database, site, fails_at, now) ==
    LET existing_ids == {database.products[k].product_id : k \in
                            {k \in 1..Len(database.products) :
                                database.products[k].brand_id = BrandId}}
        live_products == Concat([c \in 1..Len(Collections) |->
                             fetch_live_products(Listing(site, Collections[c]), fails_at[c], 1)])
        live_ids == {ToString(live_products[k].id) : k \in 1..Len(live_products)}
        \* a later product of the same id replaces an earlier one
        live_products_map == [id \in live_ids |->
            live_products[CHOOSE k \in 1..Len(live_products) :
                              /\ ToString(live_products[k].id) = id
                              /\ \A j \in (k + 1)..Len(live_products) :
                                     ToString(live_products[j].id) # id]]
        new_ids == live_ids \ existing_ids
        removed_ids == existing_ids \ live_ids
        common_ids == existing_ids \cap live_ids
        started == [database EXCEPT !.stats = NoStats]
        added == ProcessNew(started, new_ids, live_products_map)
        removed == ProcessRemoved(added, removed_ids, now)
        updated == ProcessUpdated(removed, common_ids, live_products_map)
    IN  [updated EXCEPT !.stats = [live_ids |-> live_ids] @@ @]

\* what the importer leaves for the brand: nothing, or a product with its
\* price logged
Imported == [product_id |-> "1", brand_id |-> BrandId, price_min |-> 12]

InitSync ==
    /\ products_list = Catalog(1)
    /\ bm25_index = [q \in Queries |-> NoMatch(1)]
    /\ tfidf_matrix = [q \in Queries |-> NoMatch(1)]
    /\ argsort_ties = Identity(1)
    /\ set_order = Identity(1)
    /\ InitRequests(MaxSyncs)
    /\ InitNormIdle
    /\ InitAggIdle
    /\ InitImageIdle
    /\ \E loaded \in BOOLEAN :
           /\ db_products = IF loaded THEN <<Imported>> ELSE <<>>
           /\ db_price_history = IF loaded
                                 THEN <<[product_id |-> "1", brand_id |-> BrandId,
                                         price |-> 12, compare_at_price |-> None]>>
                                 ELSE <<>>
    /\ db_removed_products = <<>>
    /\ http_gets = <<>>
    /\ merged_file = [state |-> "missing", rows |-> <<>>]
    /\ live_site = [data |-> [id \in LiveIds |-> [variants |-> <<12>>, parses |-> TRUE]],
                    listed |-> [id \in LiveIds |-> {}]]
    /\ sync_run = [number |-> 0]
    /\ checkpoint_file = [state |-> "missing"]
    /\ partial_file = [state |-> "missing", rows |-> <<>>]
    /\ output_file = [state |-> "missing", rows |-> <<>>]
    /\ build_log = <<>>

\* one run of sync_brand; the shop may have changed since the run before
SyncBrand ==
    \E site \in Sites, fails_at \in Failures :
        \E done \in {sync_brand([products |-> db_products,
                                 removed_products |-> db_removed_products,
                                 price_history |-> db_price_history,
                                 stats |-> NoStats], site, fails_at, sync_run.number + 1)} :
            /\ Arrives
            /\ request' = [entry |-> "sync_brand", brand_id |-> BrandId, fails_at |-> fails_at]
            /\ response' = done.stats
            /\ live_site' = site
            /\ sync_run' = [number |-> sync_run.number + 1] @@ done.stats
            /\ db_products' = done.products
            /\ db_removed_products' = done.removed_products
            /\ db_price_history' = done.price_history
            /\ UNCHANGED <<engineVars, call, bm25_normalized, cosine_normalized,
                           hybrid_scores, snapshot, search_engine, normVars, aggVars,
                           imageVars, http_gets, mergeVars, buildVars>>

NextSync == SyncBrand

SpecSync == InitSync /\ [][NextSync]_vars

(***************************************************************************)
(* build_embeddings.py: the embedding store built with checkpoints         *)
(***************************************************************************)

\* the products in the collection while the store is built
MaxProducts == 3

\* batch_size: a checkpoint is saved after every batch_size-th product
BatchSize == 2

\* the runs of build_embeddings in one behaviour
MaxBuilds == 2

\* an ObjectId, str() of it, and ObjectId() of that string
ObjectId(n) == [oid |-> n]

Str(object_id) == ToString(object_id.oid)

ParsedObjectId(pid) == CHOOSE object_id \in {ObjectId(n) : n \in 1..MaxProducts} :
                           Str(object_id) = pid

ImageUrl(n) == "https://a/" \o ToString(n) \o ".jpg"

\* save_checkpoint: the checkpoint file, and the partial file if there are embeddings
save_checkpoint(run) ==
    [run EXCEPT !.checkpoint_file = [state |-> "ok", processed_ids |-> run.processed_ids],
                !.partial_file = IF run.rows # <<>> THEN File("ok", run.rows) ELSE @]

\* the loop over the products found, from the k-th on; KeyboardInterrupt
\* arrives when the loop reaches the product at stops_at, the fetch of an
\* image succeeds for the products in fetchable
RECURSIVE Processed(_, _, _, _, _)
Processed(run, products, k, stops_at, fetchable) ==
    IF k > Len(products) THEN run
    ELSE IF k = stops_at THEN [save_checkpoint(run) EXCEPT !.interrupted = TRUE]
    ELSE LET product_id == Str(products[k]._id)
             taken == [run EXCEPT !.handled = Append(@, product_id)]
         IN  IF products[k].images = <<>>
             THEN Processed(taken, products, k + 1, stops_at, fetchable)
             ELSE LET embedding == get_embedding_from_url(products[k].images[1],
                                       IF products[k]._id.oid \in fetchable
                                       THEN [status_code |-> 200,
                                             content |-> Picture(<<3, 4, 5>>)]
                                       ELSE [status_code |-> 404]).returned
                      embedded == IF embedding # NoArray
                                  THEN [taken EXCEPT
                                           !.rows = Append(@, <<product_id, embedding.rows>>),
                                           !.processed_ids = @ \cup {product_id}]
                                  ELSE taken
                      saved == IF k % BatchSize = 0
                               THEN [save_checkpoint(embedded) EXCEPT !.checkpoints = @ + 1]
                               ELSE embedded
                  IN  Processed(saved, products, k + 1, stops_at, fetchable)

\* build_embeddings(limit=None, resume): the files and what the run did
build_embeddings(disk, collection, resume, stops_at, fetchable) ==
    LET checkpoint == IF resume THEN disk.checkpoint_file ELSE [state |-> "missing"]
        processed_ids == IF checkpoint.state = "ok" THEN checkpoint.processed_ids ELSE {}
        processed_object_ids == {ParsedObjectId(pid) : pid \in processed_ids}
        products == SelectSeq(collection, LAMBDA product :
                                  product._id \notin processed_object_ids)
        started == [checkpoint_file |-> disk.checkpoint_file,
                    partial_file |-> disk.partial_file,
                    output_file |-> disk.output_file,
                    processed_ids |-> processed_ids,
                    \* "embeddings = []" and "product_ids = []", resumed or not
                    rows |-> <<>>,
                    handled |-> <<>>, interrupted |-> FALSE, checkpoints |-> 0,
                    resume |-> resume, resumed_from |-> processed_ids]
        looped == Processed(started, products, 1, stops_at, fetchable)
    IN  IF _VIT_MODEL = NoModel THEN started
        ELSE IF looped.interrupted \/ looped.rows = <<>> THEN looped
        ELSE [looped EXCEPT !.output_file = File("ok", looped.rows),
                            !.checkpoint_file = [state |-> "missing"],
                            !.partial_file = File("missing", <<>>)]

InitCheckpoint ==
    /\ products_list = Catalog(1)
    /\ bm25_index = [q \in Queries |-> NoMatch(1)]
    /\ tfidf_matrix = [q \in Queries |-> NoMatch(1)]
    /\ argsort_ties = Identity(1)
    /\ set_order = Identity(1)
    /\ InitRequests(MaxBuilds)
    /\ InitNormIdle
    /\ InitAggIdle
    /\ image_module = BackendModule
    /\ npz_files = <<File("missing", <<>>), File("missing", <<>>)>>
    /\ model_available \in BOOLEAN
    /\ imported = TRUE
    /\ _VIT_MODEL = load_model
    /\ _EMBEDDINGS = NoArray
    /\ _PRODUCT_IDS = NoArray
    /\ \E pictured \in SUBSET (1..MaxProducts) :
           db_products = [n \in 1..MaxProducts |->
                             [_id |-> ObjectId(n),
                              images |-> IF n \in pictured THEN <<ImageUrl(n)>> ELSE <<>>]]
    /\ db_removed_products = <<>>
    /\ db_price_history = <<>>
    /\ InitEnvIdle

\* python build_embeddings.py --full or --resume, run to its end or to Ctrl-C
BuildEmbeddings ==
    \E resume \in BOOLEAN, stops_at \in 0..MaxProducts, fetchable \in SUBSET (1..MaxProducts) :
        \E done \in {build_embeddings([checkpoint_file |-> checkpoint_file,
                                       partial_file |-> partial_file,
                                       output_file |-> output_file],
                                      db_products, resume, stops_at, fetchable)} :
            /\ Arrives
            /\ request' = [entry |-> "build_embeddings", resume |-> resume]
            /\ response' = None
            /\ checkpoint_file' = done.checkpoint_file
            /\ partial_file' = done.partial_file
            /\ output_file' = done.output_file
            /\ build_log' = Append(build_log,
                                [resume |-> resume, resumed_from |-> done.resumed_from,
                                 interrupted |-> done.interrupted,
                                 checkpoints |-> done.checkpoints, handled |-> done.handled,
                                 embedded |-> {done.rows[k][1] : k \in 1..Len(done.rows)}])
            /\ http_gets' = http_gets
            /\ UNCHANGED <<engineVars, call, bm25_normalized, cosine_normalized,
                           hybrid_scores, snapshot, search_engine, normVars, aggVars,
                           imageVars, dbVars, mergeVars, syncVars>>

NextCheckpoint == BuildEmbeddings

SpecCheckpoint == InitCheckpoint /\ [][NextCheckpoint]_vars

(***************************************************************************)
(* The engine of a running process next to a catalog that other processes  *)
(* write: get_search_engine builds the engine from db['products'] once     *)
(***************************************************************************)
\* the mutant: the engine is built again for every request
EngineNeverKept == TRUE

\* get_search_engine: "if search_engine is None"
EngineIsNone == search_engine = None

\* search_engine = VastrHybridSearch(): list(self.products.find()) and
\* _build_search_indices over it; an empty collection makes the build raise
BuildEngine ==
    /\ pending > 0
    /\ EngineIsNone
    /\ db_products # <<>>
    /\ products_list' = db_products
    /\ \E bc \in ScoreVectors(Len(db_products)) :
          /\ bm25_index' = [q \in Queries |->
                               IF q = "q1" THEN bc[1] ELSE NoMatch(Len(db_products))]
          /\ tfidf_matrix' = [q \in Queries |->
                                 IF q = "q1" THEN bc[2] ELSE NoMatch(Len(db_products))]
    /\ argsort_ties' = Identity(Len(db_products))
    /\ set_order' = Identity(Len(db_products))
    /\ search_engine' = <<"VastrHybridSearch">>
    /\ UNCHANGED <<request, call, bm25_normalized, cosine_normalized, hybrid_scores,
                   response, snapshot, pending, otherVars>>

\* another process (the sync of scheduler.py) inserts a product into the
\* catalog, removes one, or updates one
CatalogWrite ==
    /\ \/ /\ Len(db_products) < MaxN
          /\ db_products' = Append(db_products, Product(Len(db_products) + 1))
       \/ /\ db_products # <<>>
          /\ db_products' = SubSeq(db_products, 1, Len(db_products) - 1)
       \/ \E i \in 1..Len(db_products) :
             db_products' = [db_products EXCEPT ![i].available = ~db_products[i].available]
    /\ UNCHANGED <<searchVars, normVars, imageVars, aggVars, db_removed_products,
                   db_price_history, envVars>>

\* a process whose engine is not built yet, over a catalog of any size
InitLive ==
    /\ products_list = <<>>
    /\ bm25_index = [q \in Queries |-> <<>>]
    /\ tfidf_matrix = [q \in Queries |-> <<>>]
    /\ argsort_ties = <<>>
    /\ set_order = <<>>
    /\ InitRequests(MaxRequests)
    /\ InitNormIdle
    /\ InitImageIdle
    /\ InitAggIdle
    /\ db_products \in {Catalog(n) : n \in 0..MaxN}
    /\ db_removed_products = <<>>
    /\ db_price_history = <<>>
    /\ InitEnvIdle

NextLive ==
    \/ BuildEngine
    \/ SearchProducts({"q1"}, {MaxTopK}, {DefaultWeight}, {EmptyMap})
    \/ db_products = <<>> /\ SearchProductsFails
    \/ CatalogWrite

SpecLive == InitLive /\ [][NextLive]_vars

(***************************************************************************)
(* The filter step alone: VastrHybridSearch._apply_filters on one product  *)
(***************************************************************************)
\* a candidate: price, product type and availability each present or
\* missing (marked -1 or "missing")
CandidateDrafts ==
    [brand_id : {"nishat", "ethnic"},
     price_min : {0, 1, 2, 3, -1},
     product_type : {"suit", "dress", Missing},
     available : {"True", "False", Missing}]

Candidate(draft) ==
    [key \in {"brand_id"}
              \cup (IF draft.price_min >= 0 THEN {"price_min"} ELSE {})
              \cup (IF draft.product_type # Missing THEN {"product_type"} ELSE {})
              \cup (IF draft.available # Missing THEN {"available"} ELSE {}) |->
        IF key = "available" THEN draft.available = "True" ELSE draft[key]]

\* the filters dict: any of the five keys present
FilterDrafts ==
    [brand_id : {"ethnic", Missing},
     min_price : {1, 2, -1},
     max_price : {1, 2, -1},
     product_type : {"suit", Missing},
     available_only : {"True", "False", Missing}]

FiltersOf(draft) ==
    [key \in (IF draft.brand_id # Missing THEN {"brand_id"} ELSE {})
              \cup (IF draft.min_price >= 0 THEN {"min_price"} ELSE {})
              \cup (IF draft.max_price >= 0 THEN {"max_price"} ELSE {})
              \cup (IF draft.product_type # Missing THEN {"product_type"} ELSE {})
              \cup (IF draft.available_only # Missing THEN {"available_only"} ELSE {}) |->
        IF key = "available_only" THEN draft.available_only = "True" ELSE draft[key]]

\* an engine holding the one candidate
InitFilters ==
    /\ \E draft \in CandidateDrafts : products_list = <<Candidate(draft)>>
    /\ bm25_index = [q \in Queries |-> NoMatch(1)]
    /\ tfidf_matrix = [q \in Queries |-> NoMatch(1)]
    /\ argsort_ties = Identity(1)
    /\ set_order = Identity(1)
    /\ InitRequests(1)
    /\ InitIdle

\* a call of self._apply_filters(product, filters)
ApplyFilters ==
    \E draft \in FilterDrafts :
        /\ Arrives
        /\ request' = [entry |-> "_apply_filters"]
        /\ call' = [filters |-> FiltersOf(draft)]
        /\ response' = _apply_filters(products_list[1], FiltersOf(draft))
        /\ UNCHANGED <<engineVars, bm25_normalized, cosine_normalized, hybrid_scores,
                       snapshot, search_engine, otherVars>>

NextFilters == ApplyFilters

SpecFilters == InitFilters /\ [][NextFilters]_vars

(***************************************************************************)
(* Query expansion alone: VastrHybridSearch._expand_query                  *)
(*                                                                         *)
(* A string is a sequence of pieces: single characters, and synonyms kept  *)
(* whole. The tables keep the triggers "casual" (in two tables), "eid",    *)
(* "red" and "striped" of the source, with their synonyms.                 *)
(***************************************************************************)
MaxPieces == 3     \* pieces a query is put together from

casual == <<"c", "a", "s", "u", "a", "l">>
eid == <<"e", "i", "d">>
red == <<"r", "e", "d">>
striped == <<"s", "t", "r", "i", "p", "e", "d">>

style_expansions ==
    <<<<casual, <<"everyday", "comfortable", "relaxed", "informal">>>>>>

occasion_expansions ==
    <<<<casual, <<"everyday", "daily", "comfort", "relaxed">>>>,
      <<eid, <<"festive", "celebration", "traditional", "special">>>>>>

color_expansions == <<<<red, <<"maroon", "crimson", "scarlet", "ruby">>>>>>

pattern_expansions == <<<<striped, <<"stripe", "lines", "linear">>>>>>

\* {**a, **b, **c, **d}: a key keeps the place of its first occurrence and
\* takes the value of its last
DictMerge(tables) ==
    LET items == Concat(tables)
        first(i) == \A j \in 1..(i - 1) : items[j][1] # items[i][1]
        last(i) == CHOOSE j \in 1..Len(items) :
                       /\ items[j][1] = items[i][1]
                       /\ \A k \in (j + 1)..Len(items) : items[k][1] # items[i][1]
        kept == SelectSeq([i \in 1..Len(items) |-> i], first)
    IN  [p \in 1..Len(kept) |-> <<items[kept[p]][1], items[last(kept[p])][2]>>]

\* str.lower() on the letters of the queries
LowerPiece(c) ==
    CASE c = "R" -> "r" [] c = "E" -> "e" [] c = "D" -> "d" [] OTHER -> c

\* word in query_lower
Occurs(word, string) ==
    \E i \in 1..(Len(string) - Len(word) + 1) :
        SubSeq(string, i, i + Len(word) - 1) = word

\* ' '.join(terms)
JoinWithSpaces(terms) ==
    Concat([k \in 1..(2 * Len(terms) - 1) |->
               IF k % 2 = 1 THEN terms[(k + 1) \div 2] ELSE <<" ">>])

\* synonyms[:3], each synonym a term of its own
FirstThree(synonyms) ==
    [k \in 1..Min(3, Len(synonyms)) |-> <<synonyms[k]>>]

_expand_query(query) ==
    LET query_lower == [i \in 1..Len(query) |-> LowerPiece(query[i])]
        merged == DictMerge(<<style_expansions, occasion_expansions, color_expansions,
                              pattern_expansions>>)
        matching(item) == Occurs(item[1], query_lower)
        matched == SelectSeq(merged, matching)
        expanded_terms ==
            <<query>> \o Concat([k \in 1..Len(matched) |-> FirstThree(matched[k][2])])
    IN  JoinWithSpaces(expanded_terms)

\* the raw queries: up to MaxPieces of these put together
QueryPieces == {casual, eid, red, striped, <<"R", "E", "D">>, <<"b", "o">>, <<" ">>, <<"x">>}

RawQueries ==
    {Concat(pieces) : pieces \in UNION {[1..n -> QueryPieces] : n \in 0..MaxPieces}}

InitExpand ==
    /\ products_list = Catalog(1)
    /\ bm25_index = [q \in Queries |-> NoMatch(1)]
    /\ tfidf_matrix = [q \in Queries |-> NoMatch(1)]
    /\ argsort_ties = Identity(1)
    /\ set_order = Identity(1)
    /\ InitRequests(1)
    /\ InitIdle

\* a call of self._expand_query(query)
ExpandQuery ==
    \E query \in RawQueries :
        /\ Arrives
        /\ request' = [entry |-> "_expand_query", query |-> query]
        /\ response' = _expand_query(query)
        /\ UNCHANGED <<engineVars, call, bm25_normalized, cosine_normalized, hybrid_scores,
                       snapshot, search_engine, otherVars>>

NextExpand == ExpandQuery

SpecExpand == InitExpand /\ [][NextExpand]_vars

(***************************************************************************)
(* The index build alone: _create_searchable_text and                      *)
(* _build_search_indices over products with fields missing or empty        *)
(*                                                                         *)
(* A text is the sequence of its words.                                    *)
(***************************************************************************)
\* a loaded product: each text field missing, empty or holding a word
IndexedDrafts ==
    [title : {Missing, "", "Lawn", "the"},
     product_type : {Missing, "suit"},
     brand_name : {Missing, "Ethnic"},
     tags : {Missing, "summer"},
     description : {Missing, "soft"},
     vendor : {Missing, "Ethnic"}]

Loaded(draft) == [key \in {key \in DOMAIN draft : draft[key] # Missing} |-> draft[key]]

\* text.lower() on the words of the corpus
LowerWord(word) ==
    CASE word = "Lawn" -> "lawn" [] word = "Ethnic" -> "ethnic" [] OTHER -> word

\* "if product.get(field)": the field is there and not empty
Truthy(product, field) == field \in DOMAIN product /\ product[field] # ""

\* the words of one field, repeated as the code repeats the field
Part(product, field, times) ==
    IF Truthy(product, field) THEN [k \in 1..times |-> LowerWord(product[field])] ELSE <<>>

_create_searchable_text(product) ==
    Part(product, "title", 3) \o Part(product, "product_type", 2)
        \o Part(product, "brand_name", 1) \o Part(product, "tags", 1)
        \o Part(product, "description", 1) \o Part(product, "vendor", 1)

\* sklearn's English stop words among the words of the corpus
StopWords == {"the"}

\* BM25Okapi(tokenized_corpus) divides by the number of distinct words of
\* the corpus; TfidfVectorizer.fit_transform raises on an empty vocabulary
_build_search_indices(products) ==
    LET product_texts == [i \in 1..Len(products) |-> _create_searchable_text(products[i])]
        words == UNION {{product_texts[i][k] : k \in 1..Len(product_texts[i])} :
                           i \in 1..Len(products)}
    IN  IF words = {} THEN [raised |-> "ZeroDivisionError"]
        ELSE IF words \subseteq StopWords THEN [raised |-> "ValueError"]
        ELSE [product_texts |-> product_texts]

\* list(self.products.find()) has returned a non-empty corpus
InitBuild ==
    /\ \E n \in 1..MaxN :
          /\ products_list \in [1..n -> {Loaded(draft) : draft \in IndexedDrafts}]
          /\ bm25_index = [q \in Queries |-> NoMatch(n)]
          /\ tfidf_matrix = [q \in Queries |-> NoMatch(n)]
          /\ argsort_ties = Identity(n)
          /\ set_order = Identity(n)
    /\ InitRequests(1)
    /\ InitIdle

\* self._build_search_indices() in the constructor
BuildSearchIndices ==
    /\ Arrives
    /\ request' = [entry |-> "_build_search_indices"]
    /\ response' = _build_search_indices(products_list)
    /\ UNCHANGED <<engineVars, call, bm25_normalized, cosine_normalized, hybrid_scores,
                   snapshot, search_engine, otherVars>>

NextBuild == BuildSearchIndices

SpecBuild == InitBuild /\ [][NextBuild]_vars

(***************************************************************************)
(* Properties of the hybrid ranker                                         *)
(***************************************************************************)
\* the latest request was a direct call of hybrid_search
DirectCall == request.entry = "hybrid_search"

\* the products the latest request returned
Returned ==
    IF request.entry = "none" THEN <<>>
    ELSE IF DirectCall THEN response
    ELSE IF "products" \in DOMAIN response THEN response.products
    ELSE <<>>

Ids(products) == {products[k].product_id : k \in 1..Len(products)}

\* the ranked candidates of the latest call that pass every active filter
Passing ==
    {idx \in Keys(hybrid_scores) :
        DOMAIN call.filters = {} \/ _apply_filters(products_list[idx], call.filters)}

\* the place of a returned product in the dict hybrid_scores, whose order is
\* the order the candidates had before the sort
Place(product) == PositionOf(hybrid_scores, product.product_id)

\* C1: hybrid_search returns exactly min(top_k, number of ranked candidates
\* that pass every active filter) products: top_k is taken after filtering.
C1_TopKAfterFiltering ==
    DirectCall => Len(response) = Min(call.top_k, Cardinality(Passing))

\* C2: every fused score hybrid_search returns lies in
\* [0, bm25_weight + cosine_weight], and in [0, 1] under the default weights.
C2_FusedScoreBounded ==
    request.entry # "none" =>
        \A k \in 1..Len(Returned) :
            LET score == Returned[k].search_score
            IN  /\ score[2] > 0
                /\ score[1] >= 0
                /\ score[1] * WeightOne <= (call.bm25_weight + call.cosine_weight) * score[2]
                /\ (call.bm25_weight = DefaultWeight /\ call.cosine_weight = DefaultWeight)
                       => score[1] <= score[2]

\* a call with weights other than the default that returned one product with
\* the largest possible score and one strictly inside the interval
C2_Witness ==
    /\ DirectCall
    /\ call.bm25_weight = WeightOne /\ call.cosine_weight = DefaultWeight
    /\ \E k \in 1..Len(response) :
           response[k].search_score[1] * WeightOne
               = (call.bm25_weight + call.cosine_weight) * response[k].search_score[2]
    /\ \E k \in 1..Len(response) :
           /\ response[k].search_score[1] > 0
           /\ response[k].search_score[1] * WeightOne
                  < (call.bm25_weight + call.cosine_weight) * response[k].search_score[2]

\* a normalized dict is right for its candidates: with a nonzero raw score among
\* them the largest normalized score is exactly 1; with no candidates, or a
\* largest raw score of zero, the dict is empty; nothing is divided by zero
NormalizedRight(candidates, normalized_dict) ==
    /\ (\E k \in 1..Len(candidates) : candidates[k][2] # 0) =>
           /\ \E idx \in DOMAIN normalized_dict :
                  normalized_dict[idx][1] = normalized_dict[idx][2]
           /\ \A idx \in DOMAIN normalized_dict :
                  ~FracLess(<<1, 1>>, normalized_dict[idx])
           /\ DOMAIN normalized_dict = Keys(candidates)
    /\ (Len(candidates) = 0 \/ MaxScoreOf(candidates) = 0) => DOMAIN normalized_dict = {}
    /\ \A idx \in DOMAIN normalized_dict : normalized_dict[idx][2] # 0

\* C3: with a nonzero raw BM25 score among the candidates the largest
\* BM25-normalized score is exactly 1.0, likewise for cosine; an empty candidate
\* list or a zero maximum gives an empty dict and no division by zero.
C3_NormalizedMaxIsOne ==
    request.entry # "none" =>
        /\ NormalizedRight(_bm25_search(call.query, InternalTopK), bm25_normalized)
        /\ NormalizedRight(_cosine_search(call.query, InternalTopK), cosine_normalized)

\* a call whose BM25 candidates have two different raw scores, while the
\* cosine search found nothing
C3_Witness ==
    /\ request.entry # "none"
    /\ \E i, j \in DOMAIN bm25_normalized :
           /\ bm25_normalized[i][1] = bm25_normalized[i][2]
           /\ bm25_normalized[j][1] < bm25_normalized[j][2]
    /\ _cosine_search(call.query, InternalTopK) = <<>>
    /\ DOMAIN cosine_normalized = {}

\* C4: for the same query, weights and top_k, the identifiers returned with
\* any filters are among those returned with no filters.
C4_FilteredSubsetOfUnfiltered ==
    DirectCall =>
        Ids(response) \subseteq
            Ids(hybrid_search(call.query, call.top_k, call.bm25_weight,
                              call.cosine_weight, EmptyMap).results)

\* a filtered call that returned a product and dropped another one that the
\* same call without filters returns
C4_Witness ==
    /\ DirectCall
    /\ DOMAIN call.filters # {}
    /\ Len(response) > 0
    /\ Ids(response) # Ids(hybrid_search(call.query, call.top_k, call.bm25_weight,
                                         call.cosine_weight, EmptyMap).results)

\* C6: the returned list is in non-increasing order of fused score, and
\* candidates of equal fused score keep the order they had before the sort.
C6_SortedStable ==
    request.entry # "none" =>
        \A i, j \in 1..Len(Returned) :
            i < j =>
                /\ ~FracLess(Returned[i].search_score, Returned[j].search_score)
                /\ FracEq(Returned[i].search_score, Returned[j].search_score)
                       => Place(Returned[i]) < Place(Returned[j])

\* two products of equal positive score, returned with the later one of the
\* snapshot first because the set of candidates iterates in that order
C6_Witness ==
    /\ DirectCall
    /\ Len(response) = 2
    /\ response[1].search_score[1] > 0
    /\ FracEq(response[1].search_score, response[2].search_score)
    /\ response[1].product_id > response[2].product_id
    /\ set_order[2] < set_order[1]

\* the fused score of the product under the given weights
FusedWith(product, bm25_weight, cosine_weight) ==
    FracAdd(FracScale(bm25_weight, product.bm25_score),
            FracScale(cosine_weight, product.cosine_score))

\* C7: every product returned by any entry point carries search_score =
\* bm25_weight * bm25_score + cosine_weight * cosine_score with the weights the
\* caller supplied to that entry point.
C7_ScoreUsesSuppliedWeights ==
    request.entry # "none" =>
        \A k \in 1..Len(Returned) :
            FracEq(Returned[k].search_score,
                   FusedWith(Returned[k], request.bm25_weight, request.cosine_weight))

\* the products with a positive score for the query in either index
Matching(query) ==
    {i \in 1..N : bm25_index[query][i] > 0 \/ tfidf_matrix[query][i] > 0}

\* each index has at most InternalTopK products with a positive score
WithinCandidateLimit(query) ==
    /\ Cardinality({i \in 1..N : bm25_index[query][i] > 0}) <= InternalTopK
    /\ Cardinality({i \in 1..N : tfidf_matrix[query][i] > 0}) <= InternalTopK

\* what C5 says of a call without filters
AllMatchesReturned ==
    /\ Matching(call.query) = {} => response = <<>>
    /\ Len(response) = Min(call.top_k, Cardinality(Matching(call.query)))
    /\ call.top_k >= Cardinality(Matching(call.query))
           => Ids(response) = Matching(call.query)

\* C5 as claimed: with no filters a query that matches nothing returns an empty
\* list, and the result has min(top_k, number of matching products) products,
\* all of them when top_k is at least their number.
C5_AllMatchesReturned ==
    (DirectCall /\ DOMAIN call.filters = {}) => AllMatchesReturned

\* C5 as amended: the same, provided neither index has more than InternalTopK
\* (100) matching products.
C5_AllMatchesWithinLimit ==
    (DirectCall /\ DOMAIN call.filters = {} /\ WithinCandidateLimit(call.query))
        => AllMatchesReturned

\* more than InternalTopK products match, no index matches more than
\* InternalTopK, and a top_k of the number of products returned them all
C5_Witness ==
    /\ DirectCall
    /\ DOMAIN call.filters = {}
    /\ WithinCandidateLimit(call.query)
    /\ Cardinality(Matching(call.query)) > InternalTopK
    /\ call.top_k >= Cardinality(Matching(call.query))
    /\ Len(response) = Cardinality(Matching(call.query))

\* C8: two identical calls of hybrid_search against the unchanged index return
\* identical ordered lists with identical scores, whatever ran in between.
C8_Deterministic ==
    (snapshot # <<>> /\ DirectCall /\ call = snapshot[1]) => response = snapshot[2]

\* a call that returned products, then a different call, then the first call again
C8_Witness ==
    /\ snapshot # <<>>
    /\ snapshot[3]
    /\ DirectCall
    /\ call = snapshot[1]
    /\ Len(response) > 0
    /\ pending = 0

\* C9: normalizing a normalized text changes nothing:
\* normalize(normalize(x)) = normalize(x) for every string x.
C9_NormalizeIdempotent ==
    renormalized # Unset => renormalized = normalized

\* a text that normalization changed, with whitespace runs and a code point
\* whose lowercase is longer than itself, normalized twice
C9_Witness ==
    /\ renormalized # Unset
    /\ text # None
    /\ normalized # text
    /\ normalized # <<>>
    /\ \E i \in 1..Len(text) : Len(LowerChar(text[i])) > 1
    /\ \E i \in 1..(Len(text) - 1) : ~Kept(text[i]) /\ ~Kept(text[i + 1])

WellFormed(s) ==
    /\ \A i \in 1..Len(s) : s[i] \in {"a", "i", "7", "'", " "}
    /\ s # <<>> => s[1] # " " /\ s[Len(s)] # " "
    /\ \A i \in 1..(Len(s) - 1) : ~(s[i] = " " /\ s[i + 1] = " ")

\* C10: for every string and for None, the normalized text is made of a-z, 0-9
\* and apostrophes separated by single spaces, with no space at either end;
\* None and the empty string give the empty string.
C10_NormalizedWellFormed ==
    normalized # Unset =>
        /\ WellFormed(normalized)
        /\ text \in {None, <<>>} => normalized = <<>>

\* a text with a non-ASCII code point and whitespace other than the space,
\* normalized to two words
C10_Witness ==
    /\ normalized # Unset
    /\ text # None
    /\ \E i \in 1..Len(text) : text[i] \in {"E_ACUTE", "I_DOT", "NBSP"}
    /\ \E i \in 1..Len(text) : text[i] \in {"TAB", "NBSP"}
    /\ \E i \in 1..Len(normalized) : normalized[i] = " "

(***************************************************************************)
(* Properties of the search router                                         *)
(***************************************************************************)
\* the latest request came through the search router
RouterCall == request.entry \in {"GET /api/v1/search", "POST /api/v1/search/advanced"}

\* an empty result that says why it is empty
NoProductsIndexed(answer) ==
    /\ "status_code" \notin DOMAIN answer
    /\ "products" \in DOMAIN answer
    /\ answer.products = <<>>
    /\ "message" \in DOMAIN answer
    /\ answer.message = "no products indexed"

\* C11: over an empty corpus the engine is built without raising and every
\* query is answered with an empty result carrying an explicit "no products
\* indexed" signal, never with an exception or a generic error.
C11_EmptyCorpusSignalled ==
    (N = 0 /\ RouterCall) => NoProductsIndexed(response)

(***************************************************************************)
(* Properties of image search                                              *)
(***************************************************************************)
\* the latest request was an image search
ImageCall == request.entry = "POST /api/v1/search/image"

\* the answer is an HTTP error of the given status
IsError(answer, status_code) ==
    "status_code" \in DOMAIN answer /\ answer.status_code = status_code

\* the answer is the "failed to process image" failure
FailedToProcess(answer) ==
    /\ IsError(answer, 500)
    /\ answer.detail \in {"Failed to process image",
                          "Failed to process image - invalid format or corrupted"}

StoreLoaded == _EMBEDDINGS # NoArray /\ _PRODUCT_IDS # NoArray

StoreEmpty == StoreLoaded /\ Len(_EMBEDDINGS.rows) = 0

\* model and store are both there to serve a request
Initialized == StoreLoaded /\ ~StoreEmpty /\ _VIT_MODEL # NoModel

\* C12: an image search made while the store is unloaded or empty or the model
\* is not loaded is answered with the "not ready" failure (503), and the
\* "failed to process image" failure is given only when the submitted image
\* cannot be embedded on an initialized system.
C12_NotReadyIsExplicit ==
    ImageCall =>
        /\ ~Initialized => IsError(response, 503)
        /\ FailedToProcess(response) => (Initialized /\ ~request.image.decodable)

\* the latest request was an image search served by backend/image_search.py
\* that returned results
BackendResults ==
    /\ ImageCall
    /\ image_module = BackendModule
    /\ "results" \in DOMAIN response

\* the latest request was the debug self-query and it returned its ranking
DebugResults ==
    /\ request.entry = "GET /api/v1/search/debug/test-search"
    /\ "top_10_results" \in DOMAIN response

\* the submitted image embeds to the vector stored in row i
SelfQuery(i) ==
    /\ request.image.decodable
    /\ L2Normalize(request.image.cls) = _EMBEDDINGS.rows[i]

\* no row with another identifier holds the vector of row i
OnlyHolder(i) ==
    \A j \in 1..Len(_EMBEDDINGS.rows) :
        _EMBEDDINGS.rows[j] = _EMBEDDINGS.rows[i] =>
            _PRODUCT_IDS.rows[j] = _PRODUCT_IDS.rows[i]

\* the first result names row i with similarity 1
FirstIsRow(first, id, i) ==
    /\ id = _PRODUCT_IDS.rows[i]
    /\ FracEq(first.similarity, <<1, 1>>)

\* C13 as stated: for every row i of a loaded store, a query with row i's own
\* vector returns row i's product identifier first, with similarity 1, for
\* any limit >= 1.
C13_SelfQueryFirst ==
    /\ BackendResults =>
          \A i \in 1..Len(_EMBEDDINGS.rows) :
              SelfQuery(i) =>
                  FirstIsRow(response.results[1], response.results[1].product_id, i)
    /\ DebugResults =>
          FirstIsRow(response.top_10_results[1],
                     response.top_10_results[1].embedding_id, 1)

\* C13 amended: for every row i of a loaded store whose vector no row with a
\* different identifier also holds, a query with row i's own vector returns
\* row i's product identifier first, with similarity 1, for any limit >= 1.
C13_SelfQueryFirstAmongDistinct ==
    /\ BackendResults =>
          \A i \in 1..Len(_EMBEDDINGS.rows) :
              (SelfQuery(i) /\ OnlyHolder(i)) =>
                  FirstIsRow(response.results[1], response.results[1].product_id, i)
    /\ DebugResults =>
          (OnlyHolder(1) =>
              FirstIsRow(response.top_10_results[1],
                         response.top_10_results[1].embedding_id, 1))

\* a self-query of the second of two rows holding different vectors
C13_Witness ==
    /\ BackendResults
    /\ Len(_EMBEDDINGS.rows) = 2
    /\ _EMBEDDINGS.rows[1] # _EMBEDDINGS.rows[2]
    /\ SelfQuery(2)
    /\ request.limit = 1

\* the rows by decreasing similarity, equal similarities by stored position
StoredOrderRank(sims) ==
    LET n == Len(sims)
        ahead(j, i) == \/ FracLess(sims[i], sims[j])
                       \/ FracEq(sims[j], sims[i]) /\ j < i
    IN  [i \in 1..n |-> 1 + Cardinality({j \in 1..n : ahead(j, i)})]

\* the latest request was an image search served by routers/image_search.py
\* that returned results
RoutersResults ==
    /\ ImageCall
    /\ image_module = RoutersModule
    /\ "results" \in DOMAIN response

\* C14: over a store of N rows an image query with limit >= 1 returns exactly
\* min(limit, N) (product identifier, similarity) pairs holding the highest
\* similarities in non-increasing order, rows of equal similarity ordered by
\* stored position, the earlier row first.
C14_TopByStoredOrder ==
    LET n == Len(_EMBEDDINGS.rows)
        sims == Sims(L2Normalize(request.image.cls), _EMBEDDINGS.rows)
        expected == ByRank(StoredOrderRank(sims), Min(request.limit, n))
    IN  /\ BackendResults =>
              response.results =
                  [p \in 1..Len(expected) |->
                      [product_id |-> _PRODUCT_IDS.rows[expected[p]],
                       similarity |-> sims[expected[p]]]]
        /\ RoutersResults =>
              /\ Len(response.results) = Len(expected)
              /\ \A p \in 1..Len(expected) :
                    response.results[p].similarity = Percent(sims[expected[p]])

\* the configured files that exist and parse, in configured order
LoadableFiles == SelectSeq(npz_files, LAMBDA file : file.state = "ok")

\* C15: loading the vector store succeeds iff at least one configured file
\* exists and parses; the loaded store then holds exactly the rows of every
\* loadable file, concatenated in configured order with none dropped, missing
\* and corrupt files being skipped; the store is unavailable only when no file
\* loads.
C15_LoadConcatenatesAll ==
    imported =>
        /\ StoreLoaded <=> LoadableFiles # <<>>
        /\ StoreLoaded =>
              /\ _PRODUCT_IDS.rows =
                    Concat([k \in 1..Len(LoadableFiles) |-> ProductIds(LoadableFiles[k])])
              /\ _EMBEDDINGS.rows =
                    Concat([k \in 1..Len(LoadableFiles) |-> Embeddings(LoadableFiles[k])])

\* the <<identifier, vector>> rows of the files that were read completely, in
\* configured order
SourceRows ==
    Concat([k \in 1..Len(npz_files) |->
               IF npz_files[k].state = "ok" THEN npz_files[k].rows ELSE <<>>])

\* C16: after any load of the vector store by backend/image_search.py, over
\* files that are missing, corrupt or valid, the identifier sequence and the
\* embedding matrix have equal length and row i of the matrix is the vector
\* that was stored next to identifier i in its source file; a file that fails
\* part-way contributes neither rows nor identifiers.
C16_RowsAligned ==
    (imported /\ image_module = BackendModule) =>
        IF StoreLoaded
        THEN /\ Len(_PRODUCT_IDS.rows) = Len(_EMBEDDINGS.rows)
             /\ Len(_PRODUCT_IDS.rows) = Len(SourceRows)
             /\ \A i \in 1..Len(SourceRows) :
                   /\ _PRODUCT_IDS.rows[i] = SourceRows[i][1]
                   /\ _EMBEDDINGS.rows[i] = SourceRows[i][2]
        ELSE _EMBEDDINGS = NoArray /\ _PRODUCT_IDS = NoArray

\* a load in which the first file failed after its embeddings were read and
\* the second file was read completely
C16_Witness ==
    /\ imported
    /\ image_module = BackendModule
    /\ npz_files[1].state = "no_product_ids"
    /\ Len(npz_files[1].rows) = 1
    /\ npz_files[2].state = "ok"
    /\ Len(_EMBEDDINGS.rows) = 1

\* the text request was served: the answer carries products
TextServed == RouterCall /\ "products" \in DOMAIN response

\* the answer tells the caller the capability is down
Unavailable(answer) == "status_code" \in DOMAIN answer

C18_QueriesReadOnly ==
    [][imported => UNCHANGED <<products_list, bm25_index, tfidf_matrix,
                               _EMBEDDINGS, _PRODUCT_IDS>>]_vars

\* a second request was served after a text request that returned a scored
\* product
C18_Witness ==
    /\ pending = 0
    /\ search_engine # None
    /\ TextServed
    /\ response.products # <<>>
    /\ "search_score" \in DOMAIN response.products[1]
    /\ "_id" \in DOMAIN products_list[1]

\* the counts of a brand or product-type mapping added up
RECURSIVE SumOfCounts(_)
SumOfCounts(counts) ==
    IF DOMAIN counts = {} THEN 0
    ELSE LET key == CHOOSE key \in DOMAIN counts : TRUE
         IN  counts[key] + SumOfCounts([other \in DOMAIN counts \ {key} |-> counts[other]])

\* C19: in every response of the search API the insights are computed over
\* exactly the products returned in it, filters active or not: the brand
\* counts and the product-type counts each add up to the number of returned
\* products, and the price range covers only returned products.
C19_InsightsOverReturned ==
    (RouterCall /\ "insights" \in DOMAIN response) =>
        /\ response.insights = Insights(response.products)
        /\ SumOfCounts(response.insights.brands) = Len(response.products)
        /\ SumOfCounts(response.insights.product_types) = Len(response.products)

\* the nonzero prices of the aggregated results
NonzeroPrices ==
    {Get(result_list[k], "price_min", 0) : k \in 1..Len(result_list)} \ {0}

\* C20: for any result list the aggregator returns brand counts and
\* product-type counts that each add up to the number of results, and a price
\* range that is absent iff no result has a nonzero price and otherwise runs
\* from the smallest to the largest nonzero price_min among the results, so
\* that min <= max.
C20_InsightsOfAnyList ==
    pending = 0 =>
        /\ SumOfCounts(insights.brands) = Len(result_list)
        /\ SumOfCounts(insights.product_types) = Len(result_list)
        /\ insights.price_range = NoPriceRange <=> NonzeroPrices = {}
        /\ NonzeroPrices # {} =>
              /\ insights.price_range[1] \in NonzeroPrices
              /\ insights.price_range[2] \in NonzeroPrices
              /\ \A price \in NonzeroPrices :
                    insights.price_range[1] <= price /\ price <= insights.price_range[2]

\* three results aggregated: one without brand and with price zero, two with
\* different nonzero prices
C20_Witness ==
    /\ pending = 0
    /\ Len(result_list) = MaxResults
    /\ \E k \in 1..Len(result_list) :
          /\ "brand_name" \notin DOMAIN result_list[k]
          /\ Get(result_list[k], "price_min", 0) = 0
    /\ Cardinality(NonzeroPrices) = 2
    /\ insights.price_range[1] < insights.price_range[2]

\* the stored record a returned product was copied from: _id back, scores off
Stored(product) ==
    [key \in (DOMAIN product \ {"search_score", "bm25_score", "cosine_score"}) \cup {"_id"} |->
        IF key = "_id" THEN product.product_id ELSE product[key]]

\* C21: the engine (catalog snapshot and both indices) is built at most once
\* per process: once a build has succeeded every later query is answered
\* from that same snapshot, and what is written to the catalog afterwards,
\* by inserts, updates or removals, is never visible to queries.
C21_BuiltOnce ==
    [][/\ search_engine # None =>
              UNCHANGED <<search_engine, products_list, bm25_index, tfidf_matrix>>
       /\ (RouterCall /\ "products" \in DOMAIN response)' =>
              \A k \in 1..Len(response'.products) :
                  \E i \in 1..Len(products_list) :
                      Stored(response'.products[k]) = products_list[i]]_vars

\* a query answered with a product that the catalog no longer holds as the
\* engine loaded it
C21_Witness ==
    /\ search_engine # None
    /\ TextServed
    /\ response.products # <<>>
    /\ \A i \in 1..Len(db_products) : db_products[i] # Stored(response.products[1])

\* the product satisfies every active filter, a missing price counting as
\* zero and a missing availability as not available
SatisfiesEvery(product, filters) ==
    /\ "brand_id" \in DOMAIN filters => product.brand_id = filters.brand_id
    /\ "min_price" \in DOMAIN filters => Get(product, "price_min", 0) >= filters.min_price
    /\ "max_price" \in DOMAIN filters => Get(product, "price_min", 0) <= filters.max_price
    /\ "product_type" \in DOMAIN filters =>
           "product_type" \in DOMAIN product /\ product.product_type = filters.product_type
    /\ ("available_only" \in DOMAIN filters /\ filters.available_only) =>
           Get(product, "available", FALSE)

\* C22: the filter step accepts a candidate iff it satisfies every active
\* filter: equal brand identifier, price_min within the inclusive bounds
\* min_price and max_price, equal product type, and available when
\* available_only is set; a product with no price field counts as price zero
\* for both bounds, one with no availability field as not available.
C22_AcceptedIffEvery ==
    request.entry = "_apply_filters" =>
        (response <=> SatisfiesEvery(products_list[1], call.filters))

\* every trigger of every table, table after table
EveryTrigger ==
    style_expansions \o occasion_expansions \o color_expansions \o pattern_expansions

\* the triggers of the four tables occurring in the lowercased query
TriggersIn(query) ==
    SelectSeq(EveryTrigger,
              LAMBDA item : Occurs(item[1], [i \in 1..Len(query) |-> LowerPiece(query[i])]))

\* the query followed by the first three synonyms of the given triggers,
\* taken in the given order
ExpandedBy(query, triggers, order) ==
    JoinWithSpaces(<<query>> \o Concat([k \in 1..Len(triggers) |->
                                           FirstThree(triggers[order[k]][2])]))

\* C23: expand(query) returns the original query followed, space-joined, by
\* the first 3 synonyms of every trigger word of any of the four tables
\* (style, occasion, color, pattern) that occurs as a substring of the
\* lowercased query: every matching trigger of every table contributes, a
\* query without trigger is returned unchanged, and the original query comes
\* first.
C23_EveryTriggerExpands ==
    request.entry = "_expand_query" =>
        LET triggers == TriggersIn(request.query)
        IN  /\ \E order \in Orders(Len(triggers)) :
                  response = ExpandedBy(request.query, triggers, order)
            /\ triggers = <<>> => response = request.query
            /\ SubSeq(response, 1, Len(request.query)) = request.query

\* the words of the fields a product does have, the title three times and
\* the product type twice
RemainingText(product) ==
    LET field(name, times) ==
            IF name \in DOMAIN product /\ product[name] # ""
            THEN [k \in 1..times |-> LowerWord(product[name])] ELSE <<>>
    IN  field("title", 3) \o field("product_type", 2) \o field("brand_name", 1)
            \o field("tags", 1) \o field("description", 1) \o field("vendor", 1)

\* C24: the index build succeeds on any non-empty corpus whichever fields
\* (title, product type, brand, tags, description, vendor, price) are missing
\* or empty in any product: such a product is indexed with the text of its
\* remaining fields, possibly none, and never makes the whole build fail.
C24_BuildNeverFails ==
    request.entry = "_build_search_indices" =>
        /\ "raised" \notin DOMAIN response
        /\ \A i \in 1..Len(products_list) :
              response.product_texts[i] = RemainingText(products_list[i])

\* the step is an extraction call through the given function
Extraction(entry) == pending' = pending - 1 /\ request'.entry = entry

\* a vector or the failure indicator
VectorOrNone(answer) == answer = NoArray \/ "rows" \in DOMAIN answer

\* C25: embedding extraction never raises to its caller: for malformed
\* base64 or image bytes, a URL whose fetch fails, times out or answers with
\* a non-2xx status, an encoder error or an unloaded model, it returns a
\* vector or the failure indicator, and a failed URL fetch is attempted
\* exactly once, never retried.
C25_ExtractionNeverRaises ==
    [][/\ Extraction("get_embedding_from_base64") =>
              VectorOrNone(response') /\ http_gets' = http_gets
       /\ Extraction("get_embedding_from_url") =>
              /\ VectorOrNone(response')
              /\ http_gets' = IF _VIT_MODEL = NoModel THEN http_gets
                              ELSE Append(http_gets, request'.url)]_vars

\* a second extraction, from a URL that timed out, returned the failure
\* indicator after one fetch more
C25_Witness ==
    /\ pending = 0
    /\ request.entry = "get_embedding_from_url"
    /\ "error" \in DOMAIN request.answer
    /\ request.answer.error = "Timeout"
    /\ _VIT_MODEL # NoModel
    /\ response = NoArray
    /\ Len(http_gets) = MaxRequests

\* the vector of the first row of the file that carries the identifier
FirstVector(file, id) ==
    file.rows[CHOOSE k \in 1..Len(file.rows) :
                  /\ file.rows[k][1] = id
                  /\ \A j \in 1..(k - 1) : file.rows[j][1] # id][2]

\* C26: the merge of two vector-store files holds every identifier of either
\* file exactly once with its own vector: the first file's vector for an
\* identifier of the first file, the second file's otherwise, and the vector
\* of the first occurrence for an identifier repeated inside a file.
C26_MergeKeepsFirst ==
    [][Extraction("merge_npz_files") /\ npz_files[1].state = "ok" /\ npz_files[2].state = "ok" =>
         LET file1 == npz_files[1]
             file2 == npz_files[2]
             merged == merged_file'
         IN  /\ merged.state = "ok"
             /\ Range(ProductIds(merged)) = Range(ProductIds(file1)) \cup Range(ProductIds(file2))
             /\ \A k \in 1..Len(merged.rows) :
                    /\ \A j \in 1..Len(merged.rows) : merged.rows[j][1] = merged.rows[k][1] => j = k
                    /\ merged.rows[k][2] =
                           IF merged.rows[k][1] \in Range(ProductIds(file1))
                           THEN FirstVector(file1, merged.rows[k][1])
                           ELSE FirstVector(file2, merged.rows[k][1])]_vars

\* an identifier twice in the first file and once more in the second, each
\* time with another vector, and an identifier the second file alone has
C26_Witness ==
    /\ request.entry = "merge_npz_files"
    /\ request.choice = "1"
    /\ pending = MaxRequests - 1
    /\ Len(npz_files[1].rows) = 2
    /\ Len(npz_files[2].rows) = 2
    /\ ProductIds(npz_files[1]) = <<1, 1>>
    /\ ProductIds(npz_files[2]) = <<1, 2>>
    /\ Cardinality({npz_files[1].rows[1][2], npz_files[1].rows[2][2], npz_files[2].rows[1][2]}) = 3
    /\ merged_file.state = "ok"
    /\ merged_file.rows = <<npz_files[1].rows[1], npz_files[2].rows[2]>>

\* the identifiers the catalog stores for the brand
StoredProductIds(catalog) ==
    {catalog[k].product_id : k \in {k \in 1..Len(catalog) : catalog[k].brand_id = BrandId}}

\* C27: after sync_brand(b) completes with no per-item error the catalog
\* stores for brand b exactly the identifiers that were fetched, each of
\* them once, and every product that was stored but not fetched is in
\* removed_products with the time of its removal and no longer in the catalog.
C27_CatalogEqualsFetched ==
    [][Extraction("sync_brand") /\ sync_run'.errors = 0 =>
         /\ StoredProductIds(db_products') = sync_run'.live_ids
         /\ \A j, k \in 1..Len(db_products') :
                db_products'[j].product_id = db_products'[k].product_id => j = k
         /\ \A k \in 1..Len(db_products) :
                db_products[k].product_id \notin sync_run'.live_ids =>
                    /\ \E j \in (Len(db_removed_products) + 1)..Len(db_removed_products') :
                           /\ db_removed_products'[j].product = db_products[k]
                           /\ db_removed_products'[j].removed_at = sync_run'.number
                    /\ db_products[k].product_id \notin StoredProductIds(db_products')]_vars

\* a second run without errors stored a new product and moved another one
C27_Witness ==
    /\ request.entry = "sync_brand"
    /\ sync_run.number = 2
    /\ sync_run.errors = 0
    /\ sync_run.new_products = 1
    /\ sync_run.removed_products = 1
    /\ Len(db_products) = 1
    /\ Len(db_removed_products) >= 1

\* the shop lists the product in one of the configured collections
StillListed(site, product_id) ==
    \E id \in LiveIds : ToString(id) = product_id /\ site.listed[id] # {}

\* C29: sync_brand moves a product to removed_products only if no configured
\* live collection of its brand lists it; a fetch cut short by a status other
\* than 200, an exception or the page cap removes no product the shop lists.
C29_RemovedOnlyIfUnlisted ==
    [][Extraction("sync_brand") =>
         \A j \in (Len(db_removed_products) + 1)..Len(db_removed_products') :
             ~StillListed(live_site', db_removed_products'[j].product.product_id)]_vars

\* the price_history entries of a product, oldest first
HistoryOf(product_id) ==
    SelectSeq(db_price_history, LAMBDA entry :
        entry.product_id = product_id /\ entry.brand_id = BrandId)

\* C30: after any sequence of sync_brand runs, the most recent price_history
\* entry of every catalog product that has one carries the product's current
\* price_min.
C30_HistoryMatchesPrice ==
    \A k \in 1..Len(db_products) :
        LET history == HistoryOf(db_products[k].product_id) IN
            history # <<>> =>
                /\ "price_min" \in DOMAIN db_products[k]
                /\ history[Len(history)].price = db_products[k].price_min

\* the run before this one was stopped after it had saved a checkpoint
InterruptedAfterCheckpoint ==
    /\ build_log # <<>>
    /\ build_log[Len(build_log)].interrupted
    /\ build_log[Len(build_log)].checkpoints >= 1
    /\ checkpoint_file.state = "ok"

\* C28: a build interrupted after a checkpoint and then completed with
\* resume=True leaves an output file with an embedding for every product
\* embedded in either run, and processes no product of the checkpoint again.
C28_ResumeKeepsEveryEmbedding ==
    [][/\ Extraction("build_embeddings")
       /\ InterruptedAfterCheckpoint
       /\ request'.resume
       /\ _VIT_MODEL # NoModel
       /\ ~build_log'[Len(build_log')].interrupted
       => /\ build_log[Len(build_log)].embedded \cup build_log'[Len(build_log')].embedded
                 \subseteq Range(ProductIds(output_file'))
          /\ \A k \in 1..Len(build_log'[Len(build_log')].handled) :
                 build_log'[Len(build_log')].handled[k] \notin checkpoint_file.processed_ids]_vars

====
